---- MODULE Spec2Model ----
(***************************************************************************)
(* Hint access control and hint-usage bookkeeping of the Sudojo API        *)
(* (src/src/routes/solver.ts): GET /solve runs the hint-access middleware, *)
(* proxies to the external solver (with one unfiltered retry), gates the   *)
(* returned hint level against the caller's tier and, for a granted hint,  *)
(* runs trackHintUsage against the game_sessions / user_stats /            *)
(* point_transactions tables.  Every await of the handler is a step, so    *)
(* concurrent requests interleave exactly where the runtime lets them.     *)
(***************************************************************************)
EXTENDS Integers, Sequences, FiniteSets, TLC

\* ---------------------------------------------------------------- bounds
\* Highest hint level the solver answers with in the model.
MaxLevel == 6
\* Number of /solve requests that arrive in one behaviour.
MaxRequests == 2
\* total_points of a user_stats row that exists before the first request.
InitPoints == 1
\* Number of content requests that arrive at the access-control middleware.
MaxAccesses == 2
\* Number of hint requests of one user that arrive in one behaviour of SpecHints.
MaxHintRequests == 3

\* ------------------------------------------------------ program constants
FREE_MAX_HINT_LEVEL == 3
BLUE_BELT_MAX_HINT_LEVEL == 5
POINTS_PER_LEVEL == 2
\* Stands for JavaScript's Infinity: above every level the solver returns.
UNBOUNDED_HINT_LEVEL == MaxLevel + 1
\* Daily access limits per endpoint for non-subscribers, and the default for
\* endpoints without an entry.
DAILY_LIMITS == [boards |-> 2, dailies |-> 2, challenges |-> 2, solve |-> 10]
DEFAULT_DAILY_LIMIT == 2

\* ------------------------------------------------------------- value sets
Requests == {"r1", "r2"}
Users == {"u1", "u2"}
Boards == {"B", "C"}
Entitlements == {"blue_belt", "red_belt"}
HintLevels == 0 .. MaxLevel

NoUser == "-"
NoEntitlement == "none"

\* What the caller presents and what the identity / billing services answer:
\* ents is the entitlement set the subscription lookup returns, empty when the
\* lookup fails.
Credentials ==
    {[kind |-> "none", uid |-> NoUser, admin |-> FALSE, ents |-> {}, lookupFails |-> FALSE],
     [kind |-> "invalid", uid |-> NoUser, admin |-> FALSE, ents |-> {}, lookupFails |-> FALSE]}
    \cup [kind : {"valid"}, uid : Users, admin : BOOLEAN,
          ents : SUBSET Entitlements, lookupFails : {FALSE}]
    \cup [kind : {"valid"}, uid : Users, admin : BOOLEAN,
          ents : {{}}, lookupFails : {TRUE}]
\* Authenticated callers without admin rights or entitlements, and anonymous ones.
FreeCredentials ==
    {c \in Credentials : c.kind # "invalid" /\ ~c.admin /\ c.ents = {} /\ ~c.lookupFails}
NoCredential ==
    [kind |-> "unset", uid |-> NoUser, admin |-> FALSE, ents |-> {}, lookupFails |-> FALSE]

\* c.get("hintAccess")
NoHintAccess == [maxHintLevel |-> 0, userState |-> "unset"]

\* Query string of GET /solve: the puzzle and whether a techniques filter is given.
Queries == [original : Boards, techniques : BOOLEAN]
UnfilteredQueries == {q \in Queries : ~q.techniques}
NoQuery == [original |-> "-", techniques |-> FALSE]

\* What one fetch of the solver produces: a throw (unreachable, non-2xx,
\* timeout), or a SolverResponse with success / data / data.hints.level.
SolverOutcomes ==
    {[kind |-> "throw", hints |-> FALSE, level |-> 0],
     [kind |-> "fail", hints |-> FALSE, level |-> 0],
     [kind |-> "nodata", hints |-> FALSE, level |-> 0],
     [kind |-> "ok", hints |-> FALSE, level |-> 0]}
    \cup [kind : {"ok"}, hints : {TRUE}, level : HintLevels]
NoResult == [kind |-> "none", hints |-> FALSE, level |-> 0]

\* Rows of the three tables.
NoSession == [exists |-> FALSE, board |-> "-", solution |-> "-", level |-> 0,
              puzzleType |-> "-", puzzleId |-> "-", hintUsed |-> FALSE, hintsCount |-> 0]
NewSession(b) == [exists |-> TRUE, board |-> b, solution |-> <<b, "solved">>, level |-> 1,
                  puzzleType |-> "daily", puzzleId |-> <<"id", b>>,
                  hintUsed |-> FALSE, hintsCount |-> 0]
NoStats == [exists |-> FALSE, totalPoints |-> 0]
InitialStats == [exists |-> TRUE, totalPoints |-> InitPoints]

\* Locals of trackHintUsage that live across its awaits.
NoLocal == [session |-> NoSession, hintPoints |-> 0, techniqueLevel |-> 0,
            existingStats |-> NoStats]

NoPoints == [awarded |-> FALSE, points |-> 0, techniqueLevel |-> 0]
NoResponse == [status |-> 0, code |-> "-", hints |-> NoResult, points |-> NoPoints,
               hintLevel |-> 0, requiredEntitlement |-> NoEntitlement, userState |-> "-"]
NoTrack == [called |-> FALSE, userId |-> NoUser, tracked |-> FALSE, hintPoints |-> 0]
\* Per user: the trackHintUsage calls that returned tracked, the sum of their
\* hintPoints, and whether a call on the user's session board returned untracked.
NoAwards == [tracked |-> 0, points |-> 0, failed |-> FALSE]

\* The process after its entry module has been evaluated: which step of
\* initDatabase().then(initGamificationTables) is pending, and whether the
\* exported fetch handler is being served.
ServerPhases == {"loading", "initDatabase", "initGamificationTables", "ready", "exited"}
LoadingServer == [phase |-> "loading", listening |-> FALSE]
ReadyServer == [phase |-> "ready", listening |-> TRUE]

\* Content requests that go through the access-control middleware.
AccessRequests == {"a1", "a2"}
\* Endpoint identifiers handed to createAccessControlMiddleware; "levels" has
\* no entry in DAILY_LIMITS.
Endpoints == {"boards", "dailies", "challenges", "solve", "levels"}
\* The calendar dates (UTC) a behaviour spans.
Days == {1, 2}

\* The Authorization header of a content request and what verifyIdToken,
\* isSiteAdmin and the subscription helper answer for it: helper says whether
\* getSubscriptionHelper() returns one, subscribed whether the entitlements
\* array is non-empty, lookupFails whether getSubscriptionInfo throws.
AccessCredentials ==
    [kind : {"none", "malformed", "invalid"}, uid : {NoUser}, admin : {FALSE},
     helper : {TRUE}, subscribed : {FALSE}, lookupFails : {FALSE}]
    \cup {c \in [kind : {"valid"}, uid : Users, admin : BOOLEAN, helper : BOOLEAN,
                  subscribed : BOOLEAN, lookupFails : BOOLEAN] :
              /\ c.subscribed => c.helper /\ ~c.lookupFails
              /\ c.lookupFails => c.helper}
NoAccessCredential ==
    [kind |-> "unset", uid |-> NoUser, admin |-> FALSE, helper |-> FALSE,
     subscribed |-> FALSE, lookupFails |-> FALSE]

\* access_logs without rows.
NoAccessLogs == [u \in Users |-> [e \in Endpoints |-> [d \in Days |-> 0]]]

\* A content request's context: where the middleware is suspended, what the
\* request carries, the locals userId and accessCount, and what came of it:
\* the status the middleware sent, whether next() was called, the
\* X-Daily-Remaining header, what checkAndRecordAccess returned (granted,
\* remaining), whether recordAccess inserted a row, whether a query threw.
NoRemaining == 0 - 1
NoAccess ==
    [pc |-> "idle", cred |-> NoAccessCredential, endpoint |-> "-", userId |-> NoUser,
     accessCount |-> 0, status |-> 0, passed |-> FALSE, header |-> NoRemaining,
     granted |-> "-", remaining |-> NoRemaining, recorded |-> FALSE, storeFailed |-> FALSE]

\* ---------------------------------------------------------- content tables
\* SQL NULL / JSON null in a text column, and in the integer column boards.level.
Null == "NULL"
NullLevel == 0 - 1

\* Primary keys of the levels table and of the boards table in the model.
LevelIds == {2, 3, 5}
BoardIds == {"b1", "b2"}
\* Requests to the content routes.
ContentRequests == {"c1", "c2"}

\* Rows of levels (level is the key) and of boards (uuid is the key).
NoLevelRow == [exists |-> FALSE, title |-> "-", text |-> "-", requires_subscription |-> FALSE]
InitialLevelRow ==
    [exists |-> TRUE, title |-> "Easy", text |-> "intro", requires_subscription |-> FALSE]
NoBoardRow == [exists |-> FALSE, level |-> NullLevel, symmetrical |-> FALSE, board |-> "-",
               solution |-> "-", techniques |-> 0]
BoardRow(lv) == [exists |-> TRUE, level |-> lv, symmetrical |-> FALSE, board |-> "B",
                 solution |-> "S", techniques |-> 0]
\* boards.level is nullable; 2 is a level outside 3..5.
BoardLevels == {NullLevel, 2, 3, 5}

\* The JSON body of PUT /levels/:level as levelUpdateSchema lets it through:
\* `provided` holds the keys present; text may be given as null.
LevelFields == {"title", "text", "requires_subscription"}
LevelBodies ==
    {b \in [provided : SUBSET LevelFields, title : {"Hard"}, text : {Null, "outro"},
            requires_subscription : {TRUE}] :
         "text" \notin b.provided => b.text = "outro"}
NoLevelBody == [provided |-> {}, title |-> "-", text |-> "-", requires_subscription |-> FALSE]

\* The JSON body of PUT /boards/:uuid as boardUpdateSchema lets it through;
\* level may be given as null.
BoardFields == {"level", "symmetrical", "board", "solution", "techniques"}
BoardBodies ==
    {b \in [provided : SUBSET BoardFields, level : {NullLevel, 5}, symmetrical : {TRUE},
            board : {"C"}, solution : {"T"}, techniques : {1}] :
         "level" \notin b.provided => b.level = 5}
NoBoardBody == [provided |-> {}, level |-> NullLevel, symmetrical |-> FALSE, board |-> "-",
                solution |-> "-", techniques |-> 0]

\* A PUT request: where its handler is suspended, the key and body it
\* carries, the row it read (`current`), and the status and row it answered.
NoLevelPut == [pc |-> "idle", level |-> 0, body |-> NoLevelBody, current |-> NoLevelRow,
               status |-> 0, data |-> NoLevelRow]
NoBoardPut == [pc |-> "idle", uuid |-> "-", body |-> NoBoardBody, current |-> NoBoardRow,
               status |-> 0, data |-> NoBoardRow]

\* The fallback daily of getRandomFallbackPuzzle, and a stored daily.
NoPuzzle == [uuid |-> <<"-">>, date |-> 0, board_uuid |-> "-", level |-> NullLevel,
             fallback |-> FALSE]
StoredDaily(date) == [uuid |-> <<"daily", date>>, date |-> date, board_uuid |-> "-",
                      level |-> NullLevel, fallback |-> FALSE]
FallbackPuzzle(date, uuid, lv) ==
    [uuid |-> <<"fallback", date>>, date |-> date, board_uuid |-> uuid, level |-> lv,
     fallback |-> TRUE]

\* A GET /dailies/today or GET /dailies/date/:date request.
DailyRoutes == {"today", "date"}
NoDaily == [pc |-> "idle", route |-> "-", date |-> 0, randomLevel |-> NullLevel,
            status |-> 0, data |-> NoPuzzle]

\* ?confirm= of a DELETE on a collection: absent, or one of these strings.
Absent == "absent"
ConfirmValues == {Absent, "true", "TRUE", "false", "1"}
\* Primary keys of technique_examples and technique_practices in the model.
RowIds == {"x1", "x2", "x3"}
DeleteTables == {"examples", "practices"}
\* A DELETE /examples or DELETE /practices request.
NoDeleted == 0 - 1
NoDelete == [pc |-> "idle", table |-> "-", confirm |-> Absent, status |-> 0,
             deleted |-> NoDeleted]

VARIABLES
    gameSessions,       \* game_sessions: user_id (UNIQUE) -> row
    userStats,          \* user_stats: user_id (PRIMARY KEY) -> row
    pointTransactions,  \* point_transactions, in insertion order
    initialStats,       \* user_stats as it was before the first request
    arrivals,           \* number of requests that have arrived
    awards,             \* per user, what trackHintUsage has returned so far
    pc,                 \* where each request's handler is suspended
    auth,               \* the credential and the directory answers the middleware works on
    query,              \* c.req.query(...)
    hintAccess,         \* c.get("hintAccess")
    firebaseUser,       \* c.get("firebaseUser")?.uid
    result,             \* the latest SolverResponse assigned to `result`
    calls,              \* number of callSolver invocations of the request
    fetched,            \* what each of them produced, in order
    local,              \* trackHintUsage's locals
    track,              \* what trackHintUsage returned
    wrote,              \* which tables the request's trackHintUsage has written
    resp,               \* the response sent
    server,             \* the process: its database initialization chain and its listener
    accessLogs,         \* access_logs: rows per (user_id, endpoint, access_date)
    today,              \* the date getTodayDate() returns
    accessArrivals,     \* number of content requests that have arrived
    ac,                 \* each content request's pass through the access-control middleware
    levels,             \* levels: level (PRIMARY KEY) -> row
    boards,             \* boards: uuid (PRIMARY KEY) -> row
    dailies,            \* dailies: the dates that have a row
    techniqueExamples,  \* technique_examples: the keys of its rows
    techniquePractices, \* technique_practices: the keys of its rows
    daily,              \* each GET /dailies/today|date request
    levelPut,           \* each PUT /levels/:level request
    boardPut,           \* each PUT /boards/:uuid request
    del                 \* each DELETE /examples or /practices request

db == <<gameSessions, userStats, pointTransactions>>
history == <<initialStats, awards>>
\* The state GET /solve works on.
solveVars == <<gameSessions, userStats, pointTransactions, initialStats, arrivals, awards,
               pc, auth, query, hintAccess, firebaseUser, result, calls, fetched, local, track,
               wrote, resp>>
\* The state the access-control middleware works on.
accessVars == <<accessLogs, today, accessArrivals, ac>>
\* The content tables and the requests to the content routes.
contentTables == <<levels, boards, dailies, techniqueExamples, techniquePractices>>
contentVars == <<contentTables, daily, levelPut, boardPut, del>>
vars == <<solveVars, server, accessVars, contentVars>>


\* ------------------------------------------------------------ pure helpers
\* The policy table with the blue_belt rule tried before the red_belt rule.
ResolveHintAccess_BlueFirst(cred) ==
    IF cred.kind # "valid"
    THEN [maxHintLevel |-> FREE_MAX_HINT_LEVEL, userState |-> "anonymous"]
    ELSE IF cred.admin
    THEN [maxHintLevel |-> UNBOUNDED_HINT_LEVEL, userState |-> "admin"]
    ELSE IF "blue_belt" \in cred.ents
    THEN [maxHintLevel |-> BLUE_BELT_MAX_HINT_LEVEL, userState |-> "blue_belt"]
    ELSE IF "red_belt" \in cred.ents
    THEN [maxHintLevel |-> UNBOUNDED_HINT_LEVEL, userState |-> "red_belt"]
    ELSE [maxHintLevel |-> FREE_MAX_HINT_LEVEL, userState |-> "free"]

\* src/middleware/hintAccess: the policy table, first match wins.
ResolveHintAccess(cred) ==
    IF cred.kind # "valid"
    THEN [maxHintLevel |-> FREE_MAX_HINT_LEVEL, userState |-> "anonymous"]
    ELSE IF cred.admin
    THEN [maxHintLevel |-> UNBOUNDED_HINT_LEVEL, userState |-> "admin"]
    ELSE IF cred.lookupFails
    THEN [maxHintLevel |-> FREE_MAX_HINT_LEVEL, userState |-> "free"]
    ELSE IF "red_belt" \in cred.ents
    THEN [maxHintLevel |-> UNBOUNDED_HINT_LEVEL, userState |-> "red_belt"]
    ELSE IF "blue_belt" \in cred.ents
    THEN [maxHintLevel |-> BLUE_BELT_MAX_HINT_LEVEL, userState |-> "blue_belt"]
    ELSE [maxHintLevel |-> FREE_MAX_HINT_LEVEL, userState |-> "free"]

\* The inverse table naming blue_belt for every level above the free ones.
getRequiredEntitlement_BlueAboveFree(hintLevel) ==
    IF hintLevel <= FREE_MAX_HINT_LEVEL THEN NoEntitlement ELSE "blue_belt"

\* src/middleware/hintAccess: getRequiredEntitlement(hintLevel)
getRequiredEntitlement(hintLevel) ==
    IF hintLevel <= FREE_MAX_HINT_LEVEL THEN NoEntitlement
    ELSE IF hintLevel <= BLUE_BELT_MAX_HINT_LEVEL THEN "blue_belt"
    ELSE "red_belt"

\* The 400 check without its !result.data half.
SolverFailed_IgnoresNoData(res) == res.kind = "fail"

\* !result.success || !result.data
SolverFailed(res) == res.kind \in {"fail", "nodata"}

\* The fallback condition without its level-0 case.
NeedsFallback_NoLevelZero(res) == SolverFailed(res)

\* !result.success || !result.data || result.data.hints?.level === 0
NeedsFallback(res) == SolverFailed(res) \/ (res.hints /\ res.level = 0)

\* result.data.hints?.level ?? 0
GateLevel(res) == IF res.hints THEN res.level ELSE 0

\* result.data.hints?.level ?? 1
TechniqueLevel(res) == IF res.hints THEN res.level ELSE 1

\* The gate with >= in place of >.
HintDenied_AtOrAbove(access, hintLevel) ==
    access # NoHintAccess /\ hintLevel >= access.maxHintLevel

\* hintAccess && hintLevel > hintAccess.maxHintLevel
HintDenied(access, hintLevel) ==
    access # NoHintAccess /\ hintLevel > access.maxHintLevel

\* const hintPoints = 2 * techniqueLevel
HintPoints(techniqueLevel) == POINTS_PER_LEVEL * techniqueLevel

\* The denial payload naming the entitlement above the caller's own tier.
DeniedEntitlement_FromTier(access, hintLevel) ==
    getRequiredEntitlement(access.maxHintLevel + 1)

\* requiredEntitlement: getRequiredEntitlement(hintLevel) in the denial payload.
DeniedEntitlement(access, hintLevel) == getRequiredEntitlement(hintLevel)

\* The gate answering with the best hint the caller's tier allows.
DenialResponse_Degraded(access, hintLevel) ==
    [NoResponse EXCEPT !.status = 200,
                       !.hints = [kind |-> "ok", hints |-> TRUE, level |-> access.maxHintLevel]]

\* The HintAccessDeniedResponse sent with status 402.
DenialResponse(access, hintLevel) ==
    [NoResponse EXCEPT !.status = 402, !.code = "HINT_ACCESS_DENIED",
                       !.hintLevel = hintLevel,
                       !.requiredEntitlement = DeniedEntitlement(access, hintLevel),
                       !.userState = access.userState]

ErrorResponse(status) == [NoResponse EXCEPT !.status = status]

\* The success payload with the points object attached whatever trackHintUsage returned.
SuccessResponse_AlwaysPoints(res, tr, techniqueLevel) ==
    [NoResponse EXCEPT !.status = 200, !.hints = res,
        !.points = [awarded |-> TRUE, points |-> tr.hintPoints,
                    techniqueLevel |-> techniqueLevel]]

\* successResponse(pointsEarned ? {...result.data, points: pointsEarned} : result.data)
SuccessResponse(res, tr, techniqueLevel) ==
    [NoResponse EXCEPT !.status = 200, !.hints = res,
        !.points = IF tr.tracked
                   THEN [awarded |-> TRUE, points |-> tr.hintPoints,
                         techniqueLevel |-> techniqueLevel]
                   ELSE NoPoints]

\* ------------------------------------------------------------------- Init
InitSolve ==
    /\ gameSessions = [u \in Users |-> IF u = "u1" THEN NewSession("B") ELSE NoSession]
    /\ userStats \in {[u \in Users |-> IF u = "u1" THEN t ELSE InitialStats] :
                            t \in {NoStats, InitialStats}}
    /\ pointTransactions = << >>
    /\ initialStats = userStats
    /\ arrivals = 0
    /\ awards = [u \in Users |-> NoAwards]
    /\ pc = [r \in Requests |-> "idle"]
    /\ auth = [r \in Requests |-> NoCredential]
    /\ query = [r \in Requests |-> NoQuery]
    /\ hintAccess = [r \in Requests |-> NoHintAccess]
    /\ firebaseUser = [r \in Requests |-> NoUser]
    /\ result = [r \in Requests |-> NoResult]
    /\ calls = [r \in Requests |-> 0]
    /\ fetched = [r \in Requests |-> << >>]
    /\ local = [r \in Requests |-> NoLocal]
    /\ track = [r \in Requests |-> NoTrack]
    /\ wrote = [r \in Requests |-> {}]
    /\ resp = [r \in Requests |-> NoResponse]

\* No content request has arrived and access_logs is empty.
InitAccessIdle ==
    /\ accessLogs = NoAccessLogs
    /\ today = 1
    /\ accessArrivals = 0
    /\ ac = [a \in AccessRequests |-> NoAccess]

\* No request to a content route has arrived; the content tables hold one
\* level and one board.
InitContentIdle ==
    /\ levels = [l \in LevelIds |-> IF l = 3 THEN InitialLevelRow ELSE NoLevelRow]
    /\ boards = [b \in BoardIds |-> IF b = "b1" THEN BoardRow(3) ELSE NoBoardRow]
    /\ dailies = {}
    /\ techniqueExamples = {}
    /\ techniquePractices = {}
    /\ daily = [c \in ContentRequests |-> NoDaily]
    /\ levelPut = [c \in ContentRequests |-> NoLevelPut]
    /\ boardPut = [c \in ContentRequests |-> NoBoardPut]
    /\ del = [c \in ContentRequests |-> NoDelete]

\* The server is up: both initialization steps have completed.
Init ==
    /\ InitSolve
    /\ server = ReadyServer
    /\ InitAccessIdle
    /\ InitContentIdle


\* ---------------------------------------------------------------- actions
\* The request ends: the response is sent and trackHintUsage's locals are gone.
Respond(r, rsp, tr) ==
    /\ pc' = [pc EXCEPT ![r] = "done"]
    /\ resp' = [resp EXCEPT ![r] = rsp]
    /\ track' = [track EXCEPT ![r] = tr]
    /\ local' = [local EXCEPT ![r] = NoLocal]
    /\ awards' = IF ~tr.called THEN awards
                 ELSE IF tr.tracked
                 THEN [awards EXCEPT ![tr.userId].tracked = @ + 1,
                                     ![tr.userId].points = @ + tr.hintPoints]
                 ELSE IF gameSessions[tr.userId].exists
                         /\ gameSessions[tr.userId].board = query[r].original
                 THEN [awards EXCEPT ![tr.userId].failed = TRUE]
                 ELSE awards

\* A GET /solve request arrives with a query string of `queries` and a
\* credential of `creds`, in a slot that is free or whose request has been
\* answered; `limit` bounds the number of arrivals.
ArriveWithin(r, creds, queries, limit) ==
    /\ pc[r] \in {"idle", "done"}
    /\ UNCHANGED <<server, accessVars, contentVars>>
    /\ arrivals < limit
    /\ arrivals' = arrivals + 1
    /\ \E cred \in creds, q \in queries :
          /\ auth' = [auth EXCEPT ![r] = cred]
          /\ query' = [query EXCEPT ![r] = q]
    /\ pc' = [pc EXCEPT ![r] = "middleware"]
    /\ hintAccess' = [hintAccess EXCEPT ![r] = NoHintAccess]
    /\ firebaseUser' = [firebaseUser EXCEPT ![r] = NoUser]
    /\ result' = [result EXCEPT ![r] = NoResult]
    /\ calls' = [calls EXCEPT ![r] = 0]
    /\ fetched' = [fetched EXCEPT ![r] = << >>]
    /\ local' = [local EXCEPT ![r] = NoLocal]
    /\ track' = [track EXCEPT ![r] = NoTrack]
    /\ wrote' = [wrote EXCEPT ![r] = {}]
    /\ resp' = [resp EXCEPT ![r] = NoResponse]
    /\ UNCHANGED <<db, history>>

Arrive(r, creds, queries) == ArriveWithin(r, creds, queries, MaxRequests)

\* The middleware demanding a verified credential of every caller.
hintAccessMiddleware_RequiresAuth(r) ==
    /\ pc[r] = "middleware"
    /\ UNCHANGED <<server, accessVars, contentVars>>
    /\ IF auth[r].kind # "valid"
       THEN /\ Respond(r, ErrorResponse(401), NoTrack)
            /\ UNCHANGED <<hintAccess, firebaseUser>>
       ELSE /\ hintAccess' = [hintAccess EXCEPT ![r] = ResolveHintAccess(auth[r])]
            /\ firebaseUser' = [firebaseUser EXCEPT ![r] = auth[r].uid]
            /\ pc' = [pc EXCEPT ![r] = "handler"]
            /\ UNCHANGED <<resp, track, local, awards>>
    /\ UNCHANGED <<db, initialStats, arrivals, auth, query, result, calls, fetched, wrote>>

\* The middleware letting a credential that fails verification in as anonymous.
hintAccessMiddleware_InvalidAsAnonymous(r) ==
    /\ pc[r] = "middleware"
    /\ UNCHANGED <<server, accessVars, contentVars>>
    /\ hintAccess' = [hintAccess EXCEPT ![r] = ResolveHintAccess(auth[r])]
    /\ firebaseUser' = [firebaseUser EXCEPT ![r] = auth[r].uid]
    /\ pc' = [pc EXCEPT ![r] = "handler"]
    /\ UNCHANGED <<resp, track, local, awards>>
    /\ UNCHANGED <<db, initialStats, arrivals, auth, query, result, calls, fetched, wrote>>

\* hintAccessMiddleware: 401 for a credential that fails verification,
\* otherwise sets hintAccess (and firebaseUser when authenticated) and calls next().
hintAccessMiddleware(r) ==
    /\ pc[r] = "middleware"
    /\ UNCHANGED <<server, accessVars, contentVars>>
    /\ IF auth[r].kind = "invalid"
       THEN /\ Respond(r, ErrorResponse(401), NoTrack)
            /\ UNCHANGED <<hintAccess, firebaseUser>>
       ELSE /\ hintAccess' = [hintAccess EXCEPT ![r] = ResolveHintAccess(auth[r])]
            /\ firebaseUser' = [firebaseUser EXCEPT ![r] = auth[r].uid]
            /\ pc' = [pc EXCEPT ![r] = "handler"]
            /\ UNCHANGED <<resp, track, local, awards>>
    /\ UNCHANGED <<db, initialStats, arrivals, auth, query, result, calls, fetched, wrote>>

\* handleSolveRequest up to its first await: the first callSolver is issued,
\* with the techniques filter when the query carries one.  The handler reads
\* the query, hintAccess and firebaseUser only; the credential is not kept.
handleSolveRequest(r) ==
    /\ pc[r] = "handler"
    /\ UNCHANGED <<server, accessVars, contentVars>>
    /\ auth' = [auth EXCEPT ![r] = NoCredential]
    /\ calls' = [calls EXCEPT ![r] = 1]
    /\ pc' = [pc EXCEPT ![r] = IF query[r].techniques THEN "solveFiltered" ELSE "solveGeneric"]
    /\ UNCHANGED fetched
    /\ UNCHANGED <<db, history, arrivals, query, hintAccess, firebaseUser, result,
                   local, track, wrote, resp>>

\* The handler with hint tracking moved in front of the gate.
AfterSolve_TrackBeforeGate(r, res) ==
    LET hintLevel == GateLevel(res)
        techniqueLevel == TechniqueLevel(res)
    IN  IF SolverFailed(res)
        THEN /\ Respond(r, ErrorResponse(400), NoTrack)
             /\ UNCHANGED calls
        ELSE IF firebaseUser[r] # NoUser
        THEN /\ pc' = [pc EXCEPT ![r] = "selectSession"]
             /\ local' = [local EXCEPT ![r] = [NoLocal EXCEPT !.techniqueLevel = techniqueLevel]]
             /\ UNCHANGED <<resp, track, calls, awards>>
        ELSE IF HintDenied(hintAccess[r], hintLevel)
        THEN /\ Respond(r, DenialResponse(hintAccess[r], hintLevel), NoTrack)
             /\ UNCHANGED calls
        ELSE /\ Respond(r, SuccessResponse(res, NoTrack, techniqueLevel), NoTrack)
             /\ UNCHANGED calls

\* handleSolveRequest from a usable `result` to its next await or its response:
\* the 400 check, the hint gate, and the call of trackHintUsage up to its select.
AfterSolve(r, res) ==
    LET hintLevel == GateLevel(res)
        techniqueLevel == TechniqueLevel(res)
    IN  IF SolverFailed(res)
        THEN /\ Respond(r, ErrorResponse(400), NoTrack)
             /\ UNCHANGED calls
        ELSE IF HintDenied(hintAccess[r], hintLevel)
        THEN /\ Respond(r, DenialResponse(hintAccess[r], hintLevel), NoTrack)
             /\ UNCHANGED calls
        ELSE IF firebaseUser[r] = NoUser
        THEN /\ Respond(r, SuccessResponse(res, NoTrack, techniqueLevel), NoTrack)
             /\ UNCHANGED calls
        ELSE /\ pc' = [pc EXCEPT ![r] = "selectSession"]
             /\ local' = [local EXCEPT ![r] = [NoLocal EXCEPT !.techniqueLevel = techniqueLevel]]
             /\ UNCHANGED <<resp, track, calls, awards>>

\* The technique-filtered callSolver settles: a throw ends in the catch (503),
\* a failed or level-0 answer issues the generic callSolver, anything else goes on.
AfterFilteredSolve(r) ==
    /\ pc[r] = "solveFiltered"
    /\ UNCHANGED <<server, accessVars, contentVars>>
    /\ \E out \in SolverOutcomes :
          /\ fetched' = [fetched EXCEPT ![r] = Append(@, out)]
          /\ result' = [result EXCEPT ![r] = IF out.kind = "throw" THEN @ ELSE out]
          /\ IF out.kind = "throw"
             THEN /\ Respond(r, ErrorResponse(503), NoTrack)
                  /\ UNCHANGED calls
             ELSE IF NeedsFallback(out)
             THEN /\ pc' = [pc EXCEPT ![r] = "solveGeneric"]
                  /\ calls' = [calls EXCEPT ![r] = @ + 1]
                  /\ UNCHANGED <<resp, track, local, awards>>
             ELSE AfterSolve(r, out)
    /\ UNCHANGED <<db, initialStats, arrivals, auth, query, hintAccess, firebaseUser, wrote>>

\* The generic callSolver settling with a usable earlier answer kept in `result`.
AfterGenericSolve_KeepsFirst(r) ==
    /\ pc[r] = "solveGeneric"
    /\ UNCHANGED <<server, accessVars, contentVars>>
    /\ \E out \in SolverOutcomes :
          LET kept == IF result[r].kind = "ok" THEN result[r] ELSE out
          IN  /\ fetched' = [fetched EXCEPT ![r] = Append(@, out)]
              /\ result' = [result EXCEPT ![r] = IF out.kind = "throw" THEN @ ELSE kept]
              /\ IF out.kind = "throw"
                 THEN /\ Respond(r, ErrorResponse(503), NoTrack)
                      /\ UNCHANGED calls
                 ELSE AfterSolve(r, kept)
    /\ UNCHANGED <<db, initialStats, arrivals, auth, query, hintAccess, firebaseUser, wrote>>

\* The generic callSolver settles (the only call, or the fallback).
AfterGenericSolve(r) ==
    /\ pc[r] = "solveGeneric"
    /\ UNCHANGED <<server, accessVars, contentVars>>
    /\ \E out \in SolverOutcomes :
          /\ fetched' = [fetched EXCEPT ![r] = Append(@, out)]
          /\ result' = [result EXCEPT ![r] = IF out.kind = "throw" THEN @ ELSE out]
          /\ IF out.kind = "throw"
             THEN /\ Respond(r, ErrorResponse(503), NoTrack)
                  /\ UNCHANGED calls
             ELSE AfterSolve(r, out)
    /\ UNCHANGED <<db, initialStats, arrivals, auth, query, hintAccess, firebaseUser, wrote>>


\* ------------------------------------------------------- trackHintUsage
NotTracked(userId) ==
    [called |-> TRUE, userId |-> userId, tracked |-> FALSE, hintPoints |-> 0]
Tracked(userId, points) ==
    [called |-> TRUE, userId |-> userId, tracked |-> TRUE, hintPoints |-> points]

\* trackHintUsage returns and handleSolveRequest sends the 200 response.
TrackReturn(r, tr) ==
    Respond(r, SuccessResponse(result[r], tr, local[r].techniqueLevel), tr)

\* The session check without the board comparison.
SessionMatches_AnyBoard(row, originalBoard) == row.exists

\* session.board !== originalBoard, after sessions.length === 0
SessionMatches(row, originalBoard) == row.exists /\ row.board = originalBoard

\* The update replacing the row by a freshly started session on the same board.
SessionUpdate_Restart(row, session) == NewSession(row.board)

\* The update as an increment of the stored count (hints_count = hints_count + 1).
SessionUpdate_Atomic(row, session) ==
    [row EXCEPT !.hintUsed = TRUE, !.hintsCount = row.hintsCount + 1]

\* The update writing the count and leaving hint_used as it is.
SessionUpdate_CountOnly(row, session) ==
    [row EXCEPT !.hintsCount = session.hintsCount + 1]

\* .set({ hintUsed: true, hintsCount: session.hintsCount + 1 })
SessionUpdate(row, session) ==
    [row EXCEPT !.hintUsed = TRUE, !.hintsCount = session.hintsCount + 1]

\* The update storing the award in place of the new total.
StatsUpdate_Overwrite(row, existing, hintPoints) ==
    [row EXCEPT !.totalPoints = hintPoints]

\* .set({ totalPoints: existingStats[0].totalPoints + hintPoints, ... })
StatsUpdate(row, existing, hintPoints) ==
    [row EXCEPT !.totalPoints = existing.totalPoints + hintPoints]

\* db.insert(pointTransactions).values({...})
HintTransaction(userId, hintPoints, techniqueLevel, session) ==
    [userId |-> userId, points |-> hintPoints, transactionType |-> "hint_used",
     metadata |-> [techniqueLevel |-> techniqueLevel, puzzleLevel |-> session.level,
                   puzzleType |-> session.puzzleType, puzzleId |-> session.puzzleId]]

\* select from game_sessions where user_id = userId, then the two early returns
\* and the computation of hintPoints.
SelectSession(r) ==
    /\ pc[r] = "selectSession"
    /\ UNCHANGED <<server, accessVars, contentVars>>
    /\ LET row == gameSessions[firebaseUser[r]]
       IN  IF SessionMatches(row, query[r].original)
           THEN /\ local' = [local EXCEPT ![r].session = row,
                                          ![r].hintPoints = HintPoints(local[r].techniqueLevel)]
                /\ pc' = [pc EXCEPT ![r] = "updateSession"]
                /\ UNCHANGED <<resp, track, awards>>
           ELSE TrackReturn(r, NotTracked(firebaseUser[r]))
    /\ UNCHANGED <<db, initialStats, arrivals, auth, query, hintAccess, firebaseUser, result,
                   calls, fetched, wrote>>

\* update game_sessions set hint_used, hints_count where user_id = userId
UpdateSession(r) ==
    /\ pc[r] = "updateSession"
    /\ UNCHANGED <<server, accessVars, contentVars>>
    /\ gameSessions' = [gameSessions EXCEPT ![firebaseUser[r]] =
                           IF @.exists THEN SessionUpdate(@, local[r].session) ELSE @]
    /\ wrote' = [wrote EXCEPT ![r] = @ \cup {"session"}]
    /\ pc' = [pc EXCEPT ![r] = "selectStats"]
    /\ UNCHANGED <<userStats, pointTransactions, history, arrivals, auth, query, hintAccess,
                   firebaseUser, result, calls, fetched, local, track, resp>>

\* select from user_stats where user_id = userId
SelectStats(r) ==
    /\ pc[r] = "selectStats"
    /\ UNCHANGED <<server, accessVars, contentVars>>
    /\ local' = [local EXCEPT ![r].existingStats = userStats[firebaseUser[r]]]
    /\ pc' = [pc EXCEPT ![r] = IF userStats[firebaseUser[r]].exists
                               THEN "updateStats" ELSE "insertStats"]
    /\ UNCHANGED <<db, history, arrivals, auth, query, hintAccess, firebaseUser, result,
                   calls, fetched, track, wrote, resp>>

\* update user_stats set total_points where user_id = userId
UpdateStats(r) ==
    /\ pc[r] = "updateStats"
    /\ UNCHANGED <<server, accessVars, contentVars>>
    /\ userStats' = [userStats EXCEPT ![firebaseUser[r]] =
                        IF @.exists
                        THEN StatsUpdate(@, local[r].existingStats, local[r].hintPoints)
                        ELSE @]
    /\ wrote' = [wrote EXCEPT ![r] = @ \cup {"stats"}]
    /\ pc' = [pc EXCEPT ![r] = "insertTransaction"]
    /\ UNCHANGED <<gameSessions, pointTransactions, history, arrivals, auth, query, hintAccess,
                   firebaseUser, result, calls, fetched, local, track, resp>>

\* insert into user_stats (user_id, total_points); user_id is the primary key,
\* so the insert throws when a row for the user exists by now.
InsertStats(r) ==
    /\ pc[r] = "insertStats"
    /\ UNCHANGED <<server, accessVars, contentVars>>
    /\ IF userStats[firebaseUser[r]].exists
       THEN /\ TrackReturn(r, NotTracked(firebaseUser[r]))
            /\ UNCHANGED <<userStats, wrote>>
       ELSE /\ userStats' = [userStats EXCEPT ![firebaseUser[r]] =
                                [exists |-> TRUE, totalPoints |-> local[r].hintPoints]]
            /\ wrote' = [wrote EXCEPT ![r] = @ \cup {"stats"}]
            /\ pc' = [pc EXCEPT ![r] = "insertTransaction"]
            /\ UNCHANGED <<resp, track, local, awards>>
    /\ UNCHANGED <<gameSessions, pointTransactions, initialStats, arrivals, auth, query, hintAccess,
                   firebaseUser, result, calls, fetched>>

\* insert into point_transactions, then return { tracked: true, hintPoints }
InsertTransaction(r) ==
    /\ pc[r] = "insertTransaction"
    /\ UNCHANGED <<server, accessVars, contentVars>>
    /\ pointTransactions' = Append(pointTransactions,
            HintTransaction(firebaseUser[r], local[r].hintPoints,
                            local[r].techniqueLevel, local[r].session))
    /\ wrote' = [wrote EXCEPT ![r] = @ \cup {"transaction"}]
    /\ TrackReturn(r, Tracked(firebaseUser[r], local[r].hintPoints))
    /\ UNCHANGED <<gameSessions, userStats, initialStats, arrivals, auth, query, hintAccess,
                   firebaseUser, result, calls, fetched>>

TrackingSteps == {"selectSession", "updateSession", "selectStats", "updateStats",
                  "insertStats", "insertTransaction"}

\* The awaited store operation throws and nothing catches it inside
\* trackHintUsage: the error reaches the handler's catch.
StoreFails_Uncaught(r) ==
    /\ pc[r] \in TrackingSteps
    /\ UNCHANGED <<server, accessVars, contentVars>>
    /\ Respond(r, ErrorResponse(503), NotTracked(firebaseUser[r]))
    /\ UNCHANGED <<db, initialStats, arrivals, auth, query, hintAccess, firebaseUser, result,
                   calls, fetched, wrote>>

\* The awaited store operation throws: the catch returns { tracked: false, hintPoints: 0 }.
StoreFails(r) ==
    /\ pc[r] \in TrackingSteps
    /\ UNCHANGED <<server, accessVars, contentVars>>
    /\ TrackReturn(r, NotTracked(firebaseUser[r]))
    /\ UNCHANGED <<db, initialStats, arrivals, auth, query, hintAccess, firebaseUser, result,
                   calls, fetched, wrote>>

\* --------------------------------------------------------- access control
\* DAILY_LIMITS[endpoint] ?? DEFAULT_DAILY_LIMIT
getDailyLimit(endpoint) ==
    IF endpoint \in DOMAIN DAILY_LIMITS THEN DAILY_LIMITS[endpoint] ELSE DEFAULT_DAILY_LIMIT

\* The limit test letting one access more through.
LimitReached_Above(accessCount, limit) == accessCount > limit

\* accessCount >= limit
LimitReached(accessCount, limit) == accessCount >= limit

\* return c.json(..., status): the middleware answers and next() is not called.
Rejected(ctx, status) == [ctx EXCEPT !.pc = "done", !.status = status]

\* await next(); return
PassedOn(ctx) == [ctx EXCEPT !.pc = "done", !.passed = TRUE]

\* A content request arrives at a route guarded by createAccessControlMiddleware(endpoint).
AccessArrive(a, creds, endpoints) ==
    /\ ac[a].pc \in {"idle", "done"}
    /\ accessArrivals < MaxAccesses
    /\ accessArrivals' = accessArrivals + 1
    /\ \E cred \in creds, e \in endpoints :
          ac' = [ac EXCEPT ![a] = [NoAccess EXCEPT !.pc = "middleware", !.cred = cred,
                                                   !.endpoint = e]]
    /\ UNCHANGED <<accessLogs, today, solveVars, server, contentVars>>

\* The middleware up to its first await: the Authorization header must be
\* present and of the form "Bearer <token>".
createAccessControlMiddleware(a) ==
    /\ ac[a].pc = "middleware"
    /\ LET ctx == ac[a]
       IN  ac' = [ac EXCEPT ![a] =
                     IF ctx.cred.kind \in {"none", "malformed"}
                     THEN Rejected(ctx, 401)
                     ELSE [ctx EXCEPT !.pc = "verifyIdToken"]]
    /\ UNCHANGED <<accessLogs, today, accessArrivals, solveVars, server, contentVars>>

\* await verifyIdToken(token) settles: a rejection goes to the catch (401);
\* otherwise the site admin passes, and everybody else goes on to the
\* subscription lookup, or to the limit check when there is no helper.
verifyIdToken(a) ==
    /\ ac[a].pc = "verifyIdToken"
    /\ LET ctx == ac[a]
           verified == [ctx EXCEPT !.userId = ctx.cred.uid]
       IN  ac' = [ac EXCEPT ![a] =
                     IF ctx.cred.kind # "valid"
                     THEN Rejected(ctx, 401)
                     ELSE IF ctx.cred.admin
                     THEN PassedOn(verified)
                     ELSE [verified EXCEPT !.pc = IF ctx.cred.helper
                                                  THEN "getSubscriptionInfo"
                                                  ELSE "getAccessCountToday"]]
    /\ UNCHANGED <<accessLogs, today, accessArrivals, solveVars, server, contentVars>>

\* The subscription lookup with a failing lookup counted as a subscription.
getSubscriptionInfo_FailOpen(a) ==
    /\ ac[a].pc = "getSubscriptionInfo"
    /\ LET ctx == ac[a]
       IN  ac' = [ac EXCEPT ![a] =
                     IF ctx.cred.lookupFails \/ ctx.cred.subscribed
                     THEN PassedOn(ctx)
                     ELSE [ctx EXCEPT !.pc = "getAccessCountToday"]]
    /\ UNCHANGED <<accessLogs, today, accessArrivals, solveVars, server, contentVars>>

\* await subHelper.getSubscriptionInfo(userId, testMode) settles: a non-empty
\* entitlements array passes; an empty one, or a throw (caught and logged),
\* goes on to the limit check.
getSubscriptionInfo(a) ==
    /\ ac[a].pc = "getSubscriptionInfo"
    /\ LET ctx == ac[a]
       IN  ac' = [ac EXCEPT ![a] =
                     IF ~ctx.cred.lookupFails /\ ctx.cred.subscribed
                     THEN PassedOn(ctx)
                     ELSE [ctx EXCEPT !.pc = "getAccessCountToday"]]
    /\ UNCHANGED <<accessLogs, today, accessArrivals, solveVars, server, contentVars>>

\* checkAndRecordAccess up to its second await: the count of today's rows of
\* the user and endpoint is read and compared with the limit; at the limit it
\* returns { granted: false, remaining: 0 } and the middleware answers 402.
getAccessCountToday(a) ==
    /\ ac[a].pc = "getAccessCountToday"
    /\ LET ctx == ac[a]
           limit == getDailyLimit(ctx.endpoint)
           accessCount == accessLogs[ctx.userId][ctx.endpoint][today]
           counted == [ctx EXCEPT !.accessCount = accessCount]
       IN  ac' = [ac EXCEPT ![a] =
                     IF LimitReached(accessCount, limit)
                     THEN Rejected([counted EXCEPT !.granted = "no", !.remaining = 0], 402)
                     ELSE [counted EXCEPT !.pc = "recordAccess"]]
    /\ UNCHANGED <<accessLogs, today, accessArrivals, solveVars, server, contentVars>>

\* recordAccess inserts a row dated today; checkAndRecordAccess returns
\* { granted: true, remaining: limit - accessCount - 1 }, the middleware sets
\* X-Daily-Remaining and calls next().
recordAccess(a) ==
    /\ ac[a].pc = "recordAccess"
    /\ LET ctx == ac[a]
           remaining == getDailyLimit(ctx.endpoint) - ctx.accessCount - 1
       IN  /\ accessLogs' = [accessLogs EXCEPT ![ctx.userId][ctx.endpoint][today] = @ + 1]
           /\ ac' = [ac EXCEPT ![a] =
                         PassedOn([ctx EXCEPT !.recorded = TRUE, !.granted = "yes",
                                              !.remaining = remaining, !.header = remaining])]
    /\ UNCHANGED <<today, accessArrivals, solveVars, server, contentVars>>

\* A query of checkAndRecordAccess throws: the middleware's catch answers 401.
AccessStoreFails(a) ==
    /\ ac[a].pc \in {"getAccessCountToday", "recordAccess"}
    /\ ac' = [ac EXCEPT ![a] = Rejected([ac[a] EXCEPT !.storeFailed = TRUE], 401)]
    /\ UNCHANGED <<accessLogs, today, accessArrivals, solveVars, server, contentVars>>

\* Midnight (UTC): getTodayDate() returns the next date from now on.
NextDay ==
    /\ today + 1 \in Days
    /\ today' = today + 1
    /\ UNCHANGED <<accessLogs, accessArrivals, ac, solveVars, server, contentVars>>

\* ------------------------------------------------------------ daily puzzles
\* The other routes leave the dailies routes' state alone, and the other way round.
ContentIdleElsewhere == UNCHANGED <<solveVars, server, accessVars>>

\* GET /dailies/today or GET /dailies/date/:date arrives; /today takes the
\* date from the clock, /date/:date from its parameter.
DailyArrive(c) ==
    /\ daily[c].pc \in {"idle", "done"}
    /\ \E route \in DailyRoutes, date \in Days :
          /\ route = "today" => date = today
          /\ daily' = [daily EXCEPT ![c] = [NoDaily EXCEPT !.pc = "selectDaily",
                                                           !.route = route, !.date = date]]
    /\ UNCHANGED <<contentTables, levelPut, boardPut, del>>
    /\ ContentIdleElsewhere

\* select from dailies where date = :date settles: the stored daily is sent,
\* or getRandomFallbackPuzzle is called and issues its select from levels.
SelectDaily(c) ==
    /\ daily[c].pc = "selectDaily"
    /\ LET ctx == daily[c]
       IN  daily' = [daily EXCEPT ![c] =
                        IF ctx.date \in dailies
                        THEN [ctx EXCEPT !.pc = "done", !.status = 200,
                                         !.data = StoredDaily(ctx.date)]
                        ELSE [ctx EXCEPT !.pc = "selectLevels"]]
    /\ UNCHANGED <<contentTables, levelPut, boardPut, del>>
    /\ ContentIdleElsewhere

\* and(gte(levels.level, 3), lte(levels.level, 5))
EligibleLevels == {l \in LevelIds : levels[l].exists /\ l >= 3 /\ l <= 5}

\* getRandomFallbackPuzzle after its select from levels: without an eligible
\* level it returns null (404); otherwise one of them is picked at random and
\* a random board of that level is asked for.
getRandomFallbackPuzzle(c) ==
    /\ daily[c].pc = "selectLevels"
    /\ LET ctx == daily[c]
       IN  IF EligibleLevels = {}
           THEN daily' = [daily EXCEPT ![c] = [ctx EXCEPT !.pc = "done", !.status = 404]]
           ELSE \E randomLevel \in EligibleLevels :
                   daily' = [daily EXCEPT ![c] = [ctx EXCEPT !.pc = "selectLevelBoard",
                                                            !.randomLevel = randomLevel]]
    /\ UNCHANGED <<contentTables, levelPut, boardPut, del>>
    /\ ContentIdleElsewhere

\* select from boards where level = randomLevel order by random() limit 1
\* settles: a row makes the fallback, with the level picked; without one a
\* random board of any level is asked for.
SelectLevelBoard(c) ==
    /\ daily[c].pc = "selectLevelBoard"
    /\ LET ctx == daily[c]
           puzzleRows == {b \in BoardIds : boards[b].exists /\ boards[b].level = ctx.randomLevel}
       IN  IF puzzleRows = {}
           THEN daily' = [daily EXCEPT ![c] = [ctx EXCEPT !.pc = "selectAnyBoard"]]
           ELSE \E puzzle \in puzzleRows :
                   daily' = [daily EXCEPT ![c] =
                                [ctx EXCEPT !.pc = "done", !.status = 200,
                                            !.data = FallbackPuzzle(ctx.date, puzzle,
                                                                    ctx.randomLevel)]]
    /\ UNCHANGED <<contentTables, levelPut, boardPut, del>>
    /\ ContentIdleElsewhere

\* select from boards order by random() limit 1 settles: no row, null (404);
\* otherwise the fallback is made of the row, with the row's own level.
SelectAnyBoard(c) ==
    /\ daily[c].pc = "selectAnyBoard"
    /\ LET ctx == daily[c]
           anyPuzzleRows == {b \in BoardIds : boards[b].exists}
       IN  IF anyPuzzleRows = {}
           THEN daily' = [daily EXCEPT ![c] = [ctx EXCEPT !.pc = "done", !.status = 404]]
           ELSE \E puzzle \in anyPuzzleRows :
                   daily' = [daily EXCEPT ![c] =
                                [ctx EXCEPT !.pc = "done", !.status = 200,
                                            !.data = FallbackPuzzle(ctx.date, puzzle,
                                                                    boards[puzzle].level)]]
    /\ UNCHANGED <<contentTables, levelPut, boardPut, del>>
    /\ ContentIdleElsewhere

\* The hint, access and content-request state at rest, on a running server.
InitElsewhereIdle ==
    /\ InitSolve
    /\ userStats["u1"] = InitialStats
    /\ server = ReadyServer
    /\ InitAccessIdle
    /\ techniqueExamples = {}
    /\ techniquePractices = {}
    /\ daily = [c \in ContentRequests |-> NoDaily]
    /\ levelPut = [c \in ContentRequests |-> NoLevelPut]
    /\ boardPut = [c \in ContentRequests |-> NoBoardPut]
    /\ del = [c \in ContentRequests |-> NoDelete]

\* Any content of levels, boards and dailies.
InitDailies ==
    /\ InitElsewhereIdle
    /\ levels \in [LevelIds -> {NoLevelRow, InitialLevelRow}]
    /\ boards \in [BoardIds -> {NoBoardRow} \cup {BoardRow(lv) : lv \in BoardLevels}]
    /\ dailies \in SUBSET Days

NextDailies ==
    \/ DailyArrive("c1")
    \/ SelectDaily("c1")
    \/ getRandomFallbackPuzzle("c1")
    \/ SelectLevelBoard("c1")
    \/ SelectAnyBoard("c1")

\* Requests for the daily puzzle against every content of the tables.
SpecDailies == InitDailies /\ [][NextDailies]_vars

\* ------------------------------------------------------------ PUT handlers
\* body.f !== undefined ? body.f : current.f
IfDefined(body, current, f) == IF f \in body.provided THEN body[f] ELSE current[f]

\* body.f ?? current.f for a field that may be given as null.  For a field
\* the schema does not accept null for, ?? and IfDefined agree.
Coalesce(body, current, f) ==
    IF f \in body.provided /\ body[f] # Null THEN body[f] ELSE current[f]

\* .set({...}) of PUT /levels/:level
LevelSet(body, current) ==
    [exists |-> TRUE,
     title |-> IfDefined(body, current, "title"),
     text |-> Coalesce(body, current, "text"),
     requires_subscription |-> IfDefined(body, current, "requires_subscription")]

\* .set({...}) of PUT /boards/:uuid
BoardSet(body, current) ==
    [exists |-> TRUE,
     level |-> IfDefined(body, current, "level"),
     symmetrical |-> IfDefined(body, current, "symmetrical"),
     board |-> IfDefined(body, current, "board"),
     solution |-> IfDefined(body, current, "solution"),
     techniques |-> IfDefined(body, current, "techniques")]

\* The slot has no PUT request in flight.
PutSlotFree(c) == levelPut[c].pc \in {"idle", "done"} /\ boardPut[c].pc \in {"idle", "done"}

\* PUT /levels/:level arrives with a body of `bodies`, past adminMiddleware
\* and the validators; the handler issues its select.
LevelPutArrive(c, bodies) ==
    /\ PutSlotFree(c)
    /\ \E level \in LevelIds, body \in bodies :
          levelPut' = [levelPut EXCEPT ![c] = [NoLevelPut EXCEPT !.pc = "select",
                                                                !.level = level, !.body = body]]
    /\ boardPut' = [boardPut EXCEPT ![c] = NoBoardPut]
    /\ UNCHANGED <<contentTables, daily, del>>
    /\ ContentIdleElsewhere

\* select from levels where level = :level settles: 404 without a row,
\* otherwise the row is kept as `current` and the update is issued.
LevelPutSelect(c) ==
    /\ levelPut[c].pc = "select"
    /\ LET ctx == levelPut[c]
           existing == levels[ctx.level]
       IN  levelPut' = [levelPut EXCEPT ![c] =
                           IF ~existing.exists
                           THEN [ctx EXCEPT !.pc = "done", !.status = 404]
                           ELSE [ctx EXCEPT !.pc = "update", !.current = existing]]
    /\ UNCHANGED <<contentTables, daily, boardPut, del>>
    /\ ContentIdleElsewhere

\* update levels set ... where level = :level returning * settles; the
\* handler answers 200 with rows[0].
LevelPutUpdate(c) ==
    /\ levelPut[c].pc = "update"
    /\ LET ctx == levelPut[c]
           row == IF levels[ctx.level].exists THEN LevelSet(ctx.body, ctx.current)
                  ELSE NoLevelRow
       IN  /\ levels' = [levels EXCEPT ![ctx.level] = row]
           /\ levelPut' = [levelPut EXCEPT ![c] =
                               [ctx EXCEPT !.pc = "done", !.status = 200, !.data = row]]
    /\ UNCHANGED <<boards, dailies, techniqueExamples, techniquePractices, daily, boardPut, del>>
    /\ ContentIdleElsewhere

\* PUT /boards/:uuid arrives with a body of `bodies`, past adminMiddleware
\* and the validators; the handler issues its select.
BoardPutArrive(c, bodies) ==
    /\ PutSlotFree(c)
    /\ \E uuid \in BoardIds, body \in bodies :
          boardPut' = [boardPut EXCEPT ![c] = [NoBoardPut EXCEPT !.pc = "select",
                                                                !.uuid = uuid, !.body = body]]
    /\ levelPut' = [levelPut EXCEPT ![c] = NoLevelPut]
    /\ UNCHANGED <<contentTables, daily, del>>
    /\ ContentIdleElsewhere

\* select from boards where uuid = :uuid settles: 404 without a row,
\* otherwise the row is kept as `current` and the update is issued.
BoardPutSelect(c) ==
    /\ boardPut[c].pc = "select"
    /\ LET ctx == boardPut[c]
           existing == boards[ctx.uuid]
       IN  boardPut' = [boardPut EXCEPT ![c] =
                           IF ~existing.exists
                           THEN [ctx EXCEPT !.pc = "done", !.status = 404]
                           ELSE [ctx EXCEPT !.pc = "update", !.current = existing]]
    /\ UNCHANGED <<contentTables, daily, levelPut, del>>
    /\ ContentIdleElsewhere

\* update boards set ... where uuid = :uuid returning * settles; the handler
\* answers 200 with rows[0].
BoardPutUpdate(c) ==
    /\ boardPut[c].pc = "update"
    /\ LET ctx == boardPut[c]
           row == IF boards[ctx.uuid].exists THEN BoardSet(ctx.body, ctx.current)
                  ELSE NoBoardRow
       IN  /\ boards' = [boards EXCEPT ![ctx.uuid] = row]
           /\ boardPut' = [boardPut EXCEPT ![c] =
                               [ctx EXCEPT !.pc = "done", !.status = 200, !.data = row]]
    /\ UNCHANGED <<levels, dailies, techniqueExamples, techniquePractices, daily, levelPut, del>>
    /\ ContentIdleElsewhere

\* One level and one board exist; the other keys have no row.
InitPut ==
    /\ InitSolve
    /\ userStats["u1"] = InitialStats
    /\ server = ReadyServer
    /\ InitAccessIdle
    /\ InitContentIdle

NextPut ==
    \/ LevelPutArrive("c1", LevelBodies)
    \/ LevelPutSelect("c1")
    \/ LevelPutUpdate("c1")
    \/ BoardPutArrive("c1", BoardBodies)
    \/ BoardPutSelect("c1")
    \/ BoardPutUpdate("c1")

\* PUT requests with every body, handled one after another.
SpecPut == InitPut /\ [][NextPut]_vars

\* Bodies that provide one field, with a value that is not null: the first
\* request's field and the second request's field differ.
FirstLevelBodies == {b \in LevelBodies : b.provided = {"title"}}
SecondLevelBodies == {b \in LevelBodies : b.provided = {"text"} /\ b.text # Null}
FirstBoardBodies == {b \in BoardBodies : b.provided = {"level"} /\ b.level # NullLevel}
SecondBoardBodies == {b \in BoardBodies : b.provided = {"symmetrical"}}

NextPutConcurrent ==
    \/ LevelPutArrive("c1", FirstLevelBodies)
    \/ LevelPutArrive("c2", SecondLevelBodies)
    \/ BoardPutArrive("c1", FirstBoardBodies)
    \/ BoardPutArrive("c2", SecondBoardBodies)
    \/ \E c \in ContentRequests :
          \/ LevelPutSelect(c)
          \/ LevelPutUpdate(c)
          \/ BoardPutSelect(c)
          \/ BoardPutUpdate(c)

\* Two clients, each sending PUT requests that provide one field of its own,
\* handled concurrently.
SpecPutConcurrent == InitPut /\ [][NextPutConcurrent]_vars

\* ------------------------------------------- DELETE on a whole collection
\* The rows of the table a DELETE on a collection addresses.
TableRows(table) == IF table = "examples" THEN techniqueExamples ELSE techniquePractices

\* confirm !== "true" is false: the handler goes on to the delete.
Confirmed_AnyValue(confirm) == confirm # Absent

Confirmed(confirm) == confirm = "true"

\* DELETE /examples or DELETE /practices arrives, past adminMiddleware, and
\* the handler runs to its first await: without ?confirm=true it answers 400,
\* otherwise it issues the delete.
DeleteAllArrive(c) ==
    /\ del[c].pc \in {"idle", "done"}
    /\ \E table \in DeleteTables, confirm \in ConfirmValues :
          del' = [del EXCEPT ![c] =
                     IF ~Confirmed(confirm)
                     THEN [NoDelete EXCEPT !.pc = "done", !.table = table,
                                           !.confirm = confirm, !.status = 400]
                     ELSE [NoDelete EXCEPT !.pc = "delete", !.table = table,
                                           !.confirm = confirm]]
    /\ UNCHANGED <<contentTables, daily, levelPut, boardPut>>
    /\ ContentIdleElsewhere

\* delete from the table returning * settles: every row of the table is
\* deleted and returned; the handler answers 200 with deleted: result.length.
DeleteAllReturning(c) ==
    /\ del[c].pc = "delete"
    /\ LET ctx == del[c]
           rows == TableRows(ctx.table)
       IN  /\ del' = [del EXCEPT ![c] = [ctx EXCEPT !.pc = "done", !.status = 200,
                                                     !.deleted = Cardinality(rows)]]
           /\ techniqueExamples' = IF ctx.table = "examples" THEN {}
                                   ELSE techniqueExamples
           /\ techniquePractices' = IF ctx.table = "practices" THEN {}
                                    ELSE techniquePractices
    /\ UNCHANGED <<levels, boards, dailies, daily, levelPut, boardPut>>
    /\ ContentIdleElsewhere

\* Any rows in technique_examples and technique_practices.
InitDeleteAll ==
    /\ InitSolve
    /\ userStats["u1"] = InitialStats
    /\ server = ReadyServer
    /\ InitAccessIdle
    /\ levels = [l \in LevelIds |-> IF l = 3 THEN InitialLevelRow ELSE NoLevelRow]
    /\ boards = [b \in BoardIds |-> IF b = "b1" THEN BoardRow(3) ELSE NoBoardRow]
    /\ dailies = {}
    /\ techniqueExamples \in SUBSET RowIds
    /\ techniquePractices \in SUBSET RowIds
    /\ daily = [c \in ContentRequests |-> NoDaily]
    /\ levelPut = [c \in ContentRequests |-> NoLevelPut]
    /\ boardPut = [c \in ContentRequests |-> NoBoardPut]
    /\ del = [c \in ContentRequests |-> NoDelete]

NextDeleteAll ==
    \E c \in ContentRequests :
        \/ DeleteAllArrive(c)
        \/ DeleteAllReturning(c)

\* DELETE requests on the two collections, with every value of ?confirm=,
\* two of them in flight at a time.
SpecDeleteAll == InitDeleteAll /\ [][NextDeleteAll]_vars

\* ------------------------------------------------------------ entry point
\* The entry module is evaluated: initDatabase() is called and left pending,
\* the chain of then/catch is attached, and `export default { port, fetch }`
\* hands the fetch handler to the runtime, which starts serving.
LoadEntryModule ==
    /\ server = LoadingServer
    /\ server' = [phase |-> "initDatabase", listening |-> TRUE]
    /\ UNCHANGED <<solveVars, accessVars, contentVars>>

\* initDatabase() resolves; .then(() => initGamificationTables()) starts.
initDatabase ==
    /\ server.phase = "initDatabase"
    /\ server' = [server EXCEPT !.phase = "initGamificationTables"]
    /\ UNCHANGED <<solveVars, accessVars, contentVars>>

\* initGamificationTables() resolves; the last .then logs "Server running".
initGamificationTables ==
    /\ server.phase = "initGamificationTables"
    /\ server' = [server EXCEPT !.phase = "ready"]
    /\ UNCHANGED <<solveVars, accessVars, contentVars>>

\* Either step rejects: .catch logs the error and calls process.exit(1).
InitializationFails ==
    /\ server.phase \in {"initDatabase", "initGamificationTables"}
    /\ server' = [phase |-> "exited", listening |-> FALSE]
    /\ UNCHANGED <<solveVars, accessVars, contentVars>>

\* The runtime dispatches to app.fetch only while the process serves.
Listening == server.listening

\* ---------------------------------------------------------- specifications
\* The steps of trackHintUsage.
TrackStep(r) ==
    \/ SelectSession(r)
    \/ UpdateSession(r)
    \/ SelectStats(r)
    \/ UpdateStats(r)
    \/ InsertStats(r)
    \/ InsertTransaction(r)
    \/ StoreFails(r)

Next ==
    \/ Arrive("r1", Credentials, Queries)
    \/ hintAccessMiddleware("r1")
    \/ handleSolveRequest("r1")
    \/ AfterFilteredSolve("r1")
    \/ AfterGenericSolve("r1")
    \/ TrackStep("r1")

\* Requests of every kind of caller, handled one after another.
Spec == Init /\ [][Next]_vars

NextConcurrent ==
    \E r \in Requests :
        \/ Arrive(r, FreeCredentials, UnfilteredQueries)
        \/ hintAccessMiddleware(r)
        \/ handleSolveRequest(r)
        \/ AfterGenericSolve(r)
        \/ TrackStep(r)

\* Unfiltered requests of free and anonymous callers, handled concurrently:
\* any suspended handler may resume next.
SpecConcurrent == Init /\ [][NextConcurrent]_vars

\* u1 authenticated, no site admin, without entitlements.
SessionOwnerCredentials == {c \in FreeCredentials : c.uid = "u1"}
\* Unfiltered hint requests against the board of u1's session.
SessionBoardQueries == {q \in UnfilteredQueries : q.original = "B"}

NextHints ==
    \E r \in Requests :
        \/ ArriveWithin(r, SessionOwnerCredentials, SessionBoardQueries, MaxHintRequests)
        \/ hintAccessMiddleware(r)
        \/ handleSolveRequest(r)
        \/ AfterGenericSolve(r)
        \/ TrackStep(r)

\* u1 has started a game and has not been awarded points yet.
InitHints ==
    /\ Init
    /\ userStats["u1"] = NoStats

\* Hint requests of the session's owner against the session's board, up to
\* two of them in flight at a time.
SpecHints == InitHints /\ [][NextHints]_vars

\* The process has just been started and its entry module is about to be evaluated.
InitStartup ==
    /\ InitSolve
    /\ server = LoadingServer
    /\ InitAccessIdle
    /\ InitContentIdle

NextStartup ==
    \/ LoadEntryModule
    \/ initDatabase
    \/ initGamificationTables
    \/ InitializationFails
    \/ Listening /\ Arrive("r1", FreeCredentials, UnfilteredQueries)
    \/ Listening /\ hintAccessMiddleware("r1")
    \/ Listening /\ handleSolveRequest("r1")
    \/ Listening /\ AfterGenericSolve("r1")
    \/ Listening /\ TrackStep("r1")

\* Start of the process, with /solve requests arriving as soon as it serves.
SpecStartup == InitStartup /\ [][NextStartup]_vars

\* access_logs as earlier requests of u1 left it: one endpoint accessed today,
\* at most up to its limit.
PriorAccessLogs ==
    UNION {{[NoAccessLogs EXCEPT !["u1"][e][1] = c] : c \in 0 .. getDailyLimit(e)} :
               e \in Endpoints}

InitAccess ==
    /\ InitSolve
    /\ userStats["u1"] = InitialStats
    /\ server = ReadyServer
    /\ accessLogs \in PriorAccessLogs
    /\ today = 1
    /\ accessArrivals = 0
    /\ ac = [a \in AccessRequests |-> NoAccess]
    /\ InitContentIdle

NextAccess ==
    \/ AccessArrive("a1", AccessCredentials, Endpoints)
    \/ createAccessControlMiddleware("a1")
    \/ verifyIdToken("a1")
    \/ getSubscriptionInfo("a1")
    \/ getAccessCountToday("a1")
    \/ recordAccess("a1")
    \/ AccessStoreFails("a1")
    \/ NextDay

\* Content requests of every kind of caller on every endpoint, handled one
\* after another.
SpecAccess == InitAccess /\ [][NextAccess]_vars

\* u1 verified, no site admin: the callers the daily limit applies to, and
\* subscribers among them.
MeteredCredentials ==
    {c \in AccessCredentials : c.kind = "valid" /\ ~c.admin /\ c.uid = "u1"}

\* The endpoint the concurrent requests go to.
MeteredEndpoints == {"boards"}

\* u1 has accessed the endpoint today, at most up to its limit.
InitAccessConcurrent ==
    /\ InitAccess
    /\ \E e \in MeteredEndpoints :
          \E c \in 0 .. getDailyLimit(e) :
              accessLogs = [NoAccessLogs EXCEPT !["u1"][e][1] = c]

NextAccessConcurrent ==
    \/ \E a \in AccessRequests :
          \/ AccessArrive(a, MeteredCredentials, MeteredEndpoints)
          \/ createAccessControlMiddleware(a)
          \/ verifyIdToken(a)
          \/ getSubscriptionInfo(a)
          \/ getAccessCountToday(a)
          \/ recordAccess(a)
          \/ AccessStoreFails(a)
    \/ NextDay

\* Content requests of one user, handled concurrently: any suspended
\* middleware may resume next.
SpecAccessConcurrent == InitAccessConcurrent /\ [][NextAccessConcurrent]_vars


\* ------------------------------------------------------------- properties
\* The outcome of the request's last callSolver, the decisive one.
LastFetched(r) == fetched[r][Len(fetched[r])]

\* The request was answered after its decisive solver call returned a hint.
Gated(r) == pc[r] = "done" /\ Len(fetched[r]) > 0 /\ LastFetched(r).kind = "ok"

\* The level of the decisive hint as the gate reads it (0 when hints are absent).
DecisiveLevel(r) == IF LastFetched(r).hints THEN LastFetched(r).level ELSE 0

\* C1: a /solve request whose solver call returned a hint is denied (402) if
\* and only if the hint's level is above the caller's maxHintLevel; a level
\* equal to maxHintLevel is allowed, and no 200 response carries a hint above
\* the caller's maxHintLevel.
HintGateDeniesIffAbove ==
    \A r \in Requests :
        Gated(r) =>
            /\ resp[r].status \in {200, 402}
            /\ (resp[r].status = 402) <=> (DecisiveLevel(r) > hintAccess[r].maxHintLevel)
            /\ resp[r].status = 200 =>
                  /\ resp[r].hints = LastFetched(r)
                  /\ resp[r].hints.level <= hintAccess[r].maxHintLevel

\* A free caller was shown a hint of level 3, its maxHintLevel.
HintAtMaxLevelAllowed ==
    \E r \in Requests :
        /\ Gated(r)
        /\ hintAccess[r].userState = "free"
        /\ LastFetched(r).hints /\ LastFetched(r).level = 3
        /\ resp[r].status = 200

\* C2: the access tier is resolved in priority order, first match wins: site
\* admin -> unbounded/admin, else red_belt -> unbounded/red_belt, else
\* blue_belt -> 5/blue_belt, else authenticated -> 3/free, else anonymous ->
\* 3/anonymous; every caller that gets past the middleware has exactly one of
\* these five decisions.
AccessTierResolution ==
    \A r \in Requests :
        /\ pc[r] = "handler" =>
              LET c == auth[r]
                  a == hintAccess[r]
                  authed == c.kind = "valid"
              IN  /\ authed /\ c.admin =>
                        a.userState = "admin" /\ a.maxHintLevel > MaxLevel
                  /\ authed /\ ~c.admin /\ "red_belt" \in c.ents =>
                        a.userState = "red_belt" /\ a.maxHintLevel > MaxLevel
                  /\ authed /\ ~c.admin /\ "red_belt" \notin c.ents /\ "blue_belt" \in c.ents =>
                        a.userState = "blue_belt" /\ a.maxHintLevel = 5
                  /\ authed /\ ~c.admin /\ c.ents = {} =>
                        a.userState = "free" /\ a.maxHintLevel = 3
                  /\ c.kind = "none" =>
                        a.userState = "anonymous" /\ a.maxHintLevel = 3
        /\ pc[r] \notin {"idle", "middleware"} /\ resp[r].status # 401 =>
              \/ hintAccess[r].userState \in {"admin", "red_belt"}
                    /\ hintAccess[r].maxHintLevel > MaxLevel
              \/ hintAccess[r].userState = "blue_belt" /\ hintAccess[r].maxHintLevel = 5
              \/ hintAccess[r].userState \in {"free", "anonymous"}
                    /\ hintAccess[r].maxHintLevel = 3

\* A holder of both belts who is no admin was resolved to red_belt.
BothBeltsResolveRed ==
    \E r \in Requests :
        /\ pc[r] = "handler"
        /\ auth[r].kind = "valid" /\ ~auth[r].admin
        /\ auth[r].ents = {"blue_belt", "red_belt"}
        /\ hintAccess[r].userState = "red_belt"

\* C3: the requiredEntitlement of a denial is derived from the denied hint's
\* level alone: 4 or 5 -> blue_belt, above 5 -> red_belt, at most 3 -> none;
\* a blue_belt caller is allowed level 5.
RequiredEntitlementFromLevel ==
    \A r \in Requests :
        /\ pc[r] = "done" /\ resp[r].status = 402 =>
              /\ resp[r].hintLevel = DecisiveLevel(r)
              /\ resp[r].hintLevel \in 4 .. 5 => resp[r].requiredEntitlement = "blue_belt"
              /\ resp[r].hintLevel > 5 => resp[r].requiredEntitlement = "red_belt"
              /\ resp[r].hintLevel <= 3 => resp[r].requiredEntitlement = NoEntitlement
        /\ Gated(r) /\ hintAccess[r].userState = "blue_belt" /\ DecisiveLevel(r) = 5 =>
              resp[r].status = 200

\* A blue_belt caller was denied a level-6 hint and told red_belt.
BlueBeltDeniedLevelSix ==
    \E r \in Requests :
        /\ pc[r] = "done" /\ resp[r].status = 402
        /\ hintAccess[r].userState = "blue_belt"
        /\ resp[r].hintLevel = 6
        /\ resp[r].requiredEntitlement = "red_belt"


\* No request is in flight.
Quiet == \A r \in Requests : pc[r] \in {"idle", "done"}

\* C4: a matched, tracked hint awards exactly 2 x max(techniqueLevel, 1)
\* points, so at least 2: the amount returned as hintPoints, carried by the
\* response and recorded in the hint's PointTransaction.
AwardIsTwiceLevelAtLeastTwo ==
    \A r \in Requests :
        pc[r] = "done" /\ track[r].tracked =>
            LET scored == IF DecisiveLevel(r) > 1 THEN DecisiveLevel(r) ELSE 1
            IN  /\ track[r].hintPoints = 2 * scored
                /\ track[r].hintPoints >= 2
                /\ resp[r].points.points = 2 * scored
                /\ \E i \in 1 .. Len(pointTransactions) :
                      /\ pointTransactions[i].userId = track[r].userId
                      /\ pointTransactions[i].points = 2 * scored

\* The request's caller is anonymous, has no session, or has a session on
\* another board than the one the hint was requested against.
Unmatched(r) ==
    \/ firebaseUser[r] = NoUser
    \/ ~gameSessions[firebaseUser[r]].exists
    \/ gameSessions[firebaseUser[r]].board # query[r].original

\* C5: for a caller without userId, without a GameSession, or with a session
\* on another board, no step of the request changes GameSession, UserStats or
\* PointTransaction, and the request ends with tracked=false, hintPoints=0 and
\* no points in the response.
UnmatchedHintIsNoOp ==
    [][\A r \in Requests :
          (pc[r] \in {"solveFiltered", "solveGeneric"} \cup TrackingSteps
             /\ pc'[r] # pc[r] /\ Unmatched(r))
          => /\ gameSessions' = gameSessions
             /\ userStats' = userStats
             /\ pointTransactions' = pointTransactions
             /\ pc'[r] = "done" =>
                   /\ ~track'[r].tracked
                   /\ track'[r].hintPoints = 0
                   /\ ~resp'[r].points.awarded]_vars

\* u1, whose session is on board B, asked for a hint against board C:
\* trackHintUsage ran and reported not tracked, with nothing written.
HintOnOtherBoardNotTracked ==
    \E r \in Requests :
        /\ pc[r] = "done" /\ resp[r].status = 200
        /\ track[r].called /\ ~track[r].tracked /\ track[r].userId = "u1"
        /\ query[r].original = "C"
        /\ gameSessions["u1"].exists /\ gameSessions["u1"].board = "B"
        /\ gameSessions["u1"].hintsCount = 0
        /\ pointTransactions = << >>

\* C6: when the tracked hint calls of a session ran one after another and
\* none failed, hintsCount is its initial value (0) plus their number,
\* hintUsed is true once there was one, and totalPoints is its initial value
\* plus the sum of their awards.
SequentialAccumulation ==
    \A u \in Users :
        (Quiet /\ gameSessions[u].exists /\ ~awards[u].failed) =>
            /\ gameSessions[u].hintsCount = awards[u].tracked
            /\ awards[u].tracked > 0 => gameSessions[u].hintUsed /\ userStats[u].exists
            /\ userStats[u].totalPoints = initialStats[u].totalPoints + awards[u].points

\* Two tracked hints in a row on u1's session, on top of an existing stats row.
TwoHintsAccumulated ==
    /\ Quiet
    /\ awards["u1"].tracked = 2 /\ ~awards["u1"].failed
    /\ awards["u1"].points > 2
    /\ initialStats["u1"].exists
    /\ gameSessions["u1"].hintsCount = 2

\* C7: concurrent hint requests of one user are not mutually excluded: each
\* writes hintsCount and totalPoints computed from the value it read earlier,
\* whatever is stored by now, so an update made in between is lost.
WritesComputedFromEarlierRead ==
    [][\A r \in Requests :
          /\ (pc[r] = "updateSession" /\ pc'[r] = "selectStats") =>
                gameSessions'[firebaseUser[r]].hintsCount = local[r].session.hintsCount + 1
          /\ (pc[r] = "updateStats" /\ pc'[r] = "insertTransaction") =>
                userStats'[firebaseUser[r]].totalPoints =
                    local[r].existingStats.totalPoints + local[r].hintPoints]_vars

\* Two requests of u1 both reported tracked, and hintsCount grew by one only.
LostUpdate ==
    /\ arrivals = 2
    /\ \A r \in Requests :
          pc[r] = "done" /\ track[r].tracked /\ track[r].userId = "u1"
    /\ gameSessions["u1"].hintsCount = 1
    /\ Len(pointTransactions) = 2

\* C8: a request whose trackHintUsage changed UserStats (update or insert)
\* has also appended a PointTransaction of type hint_used with the same points.
AuditTrailNeverSkipped ==
    \A r \in Requests :
        pc[r] = "done" /\ "stats" \in wrote[r] =>
            /\ "transaction" \in wrote[r]
            /\ \E i \in 1 .. Len(pointTransactions) :
                  /\ pointTransactions[i].userId = track[r].userId
                  /\ pointTransactions[i].transactionType = "hint_used"

\* The first (technique-filtered) answer asks for the generic retry.
FirstAnswerNeedsRetry(r) ==
    \/ fetched[r][1].kind \in {"fail", "nodata"}
    \/ fetched[r][1].kind = "ok" /\ fetched[r][1].hints /\ fetched[r][1].level = 0

\* The handler of the request has issued its first solver call.
Solving(r) ==
    \/ pc[r] \in {"solveFiltered", "solveGeneric"} \cup TrackingSteps
    \/ pc[r] = "done" /\ resp[r].status # 401

\* C9 as stated: with a techniques filter the solver is called a second time
\* if and only if the filtered call fails (reports failure, returns no data,
\* or the call itself errors) or succeeds with hints.level = 0.
RetryIffFilteredCallFailsOrErrors ==
    \A r \in Requests :
        (query[r].techniques /\ Len(fetched[r]) >= 1) =>
            (calls[r] = 2 <=> (FirstAnswerNeedsRetry(r) \/ fetched[r][1].kind = "throw"))

\* C9: with a techniques filter the solver is called a second time, without
\* the filter, if and only if the filtered call returns an answer that reports
\* failure or no data, or a hint of level 0; a filtered call that itself
\* errors is not retried and ends the request with 503; there are never more
\* than two calls, and a request without a filter makes exactly one.
RetryIffFilteredAnswerFails ==
    \A r \in Requests :
        /\ calls[r] <= 2 /\ Len(fetched[r]) <= calls[r]
        /\ (query[r].techniques /\ Len(fetched[r]) >= 1) =>
              /\ calls[r] = 2 <=> FirstAnswerNeedsRetry(r)
              /\ fetched[r][1].kind = "throw" =>
                    pc[r] = "done" /\ resp[r].status = 503 /\ calls[r] = 1
        /\ (Solving(r) /\ ~query[r].techniques) => calls[r] = 1

\* A filtered call answered with a level-0 hint and the generic retry was made.
RetriedAfterLevelZero ==
    \E r \in Requests :
        /\ pc[r] = "done" /\ query[r].techniques
        /\ calls[r] = 2 /\ Len(fetched[r]) = 2
        /\ fetched[r][1].kind = "ok" /\ fetched[r][1].hints /\ fetched[r][1].level = 0
        /\ resp[r].status = 200

\* C10: a /solve request that reached the handler ends 503 exactly when its
\* decisive solver call failed at the network level, 400 exactly when the
\* solver answered success=false or no data, 402 exactly when the gate denied,
\* and 200 otherwise; a failure of hint tracking leaves it at 200.
SolveOutcomeTable ==
    \A r \in Requests :
        (pc[r] = "done" /\ calls[r] >= 1) =>
            /\ Len(fetched[r]) = calls[r]
            /\ resp[r].status \in {200, 400, 402, 503}
            /\ resp[r].status = 503 <=> LastFetched(r).kind = "throw"
            /\ resp[r].status = 400 <=> LastFetched(r).kind \in {"fail", "nodata"}
            /\ resp[r].status = 402 <=>
                  /\ LastFetched(r).kind = "ok"
                  /\ DecisiveLevel(r) > hintAccess[r].maxHintLevel
            /\ (track[r].called /\ ~track[r].tracked) => resp[r].status = 200

\* trackHintUsage failed after it had updated the session; the request ended 200.
TrackingFailureStill200 ==
    \E r \in Requests :
        /\ pc[r] = "done" /\ resp[r].status = 200
        /\ track[r].called /\ ~track[r].tracked
        /\ "session" \in wrote[r]

\* C11: whichever step of trackHintUsage the request leaves the tracker from
\* (a store failure at the session read, the session update, the stats read,
\* the stats update or insert, or the transaction insert included), the
\* request ends there with status 200 and the solver's hint; when
\* trackHintUsage did not return tracked it returned hintPoints 0 and the
\* response has no points field.
StoreFailureIsCaught ==
    [][\A r \in Requests :
          (pc[r] \in TrackingSteps /\ pc'[r] \notin TrackingSteps) =>
              /\ pc'[r] = "done"
              /\ track'[r].called
              /\ resp'[r].status = 200
              /\ resp'[r].hints = result[r]
              /\ ~track'[r].tracked =>
                    /\ track'[r].hintPoints = 0
                    /\ ~resp'[r].points.awarded
                    /\ resp'[r].points = NoPoints]_vars

\* The store failed at the session read or the session update of a hint on
\* the caller's own board: nothing was written and the hint was sent with 200.
StoreFailedBeforeFirstWrite ==
    \E r \in Requests :
        /\ pc[r] = "done" /\ resp[r].status = 200
        /\ track[r].called /\ ~track[r].tracked /\ track[r].hintPoints = 0
        /\ gameSessions[track[r].userId].exists
        /\ gameSessions[track[r].userId].board = query[r].original
        /\ wrote[r] = {}
        /\ resp[r].hints.hints /\ resp[r].hints.level = 2
        /\ resp[r].points = NoPoints

\* C12: when the gate denies, the response is the 402 payload with code
\* HINT_ACCESS_DENIED, its hintLevel is the level of the hint the solver
\* returned and its userState is the caller's resolved state; it carries no
\* hint data and no points, and no further solver call is made to get a
\* lower-level hint.
DenialPayloadIsStructured ==
    \A r \in Requests :
        /\ (Gated(r) /\ DecisiveLevel(r) > hintAccess[r].maxHintLevel) =>
              resp[r].status = 402
        /\ (pc[r] = "done" /\ resp[r].status = 402) =>
              /\ resp[r].code = "HINT_ACCESS_DENIED"
              /\ LastFetched(r).hints
              /\ resp[r].hintLevel = LastFetched(r).level
              /\ resp[r].hintLevel > hintAccess[r].maxHintLevel
              /\ resp[r].userState = hintAccess[r].userState
              /\ resp[r].hints = NoResult
              /\ resp[r].points = NoPoints
              /\ Len(fetched[r]) = calls[r]
              /\ ~track[r].called

\* An authenticated caller without entitlements was denied a level-5 hint.
FreeCallerDeniedLevelFive ==
    \E r \in Requests :
        /\ pc[r] = "done" /\ resp[r].status = 402
        /\ resp[r].code = "HINT_ACCESS_DENIED"
        /\ firebaseUser[r] # NoUser
        /\ resp[r].userState = "free"
        /\ resp[r].hintLevel = 5
        /\ LastFetched(r).level = 5

\* The steps of trackHintUsage that write a table.
WritingSteps == {"updateSession", "updateStats", "insertStats", "insertTransaction"}

\* C13: points are awarded only on a granted hint.  A request enters
\* trackHintUsage only with a solver answer that passed the 400 check and the
\* gate; a request that ends 402, 400 or 503 never invoked trackHintUsage and
\* wrote no table; and GameSession, UserStats and PointTransaction change only
\* in a writing step of trackHintUsage.
TrackingOnlyOnGrantedHint ==
    [][/\ \A r \in Requests :
             /\ pc'[r] \in TrackingSteps =>
                   /\ result'[r].kind = "ok"
                   /\ GateLevel(result'[r]) <= hintAccess'[r].maxHintLevel
                   /\ firebaseUser'[r] # NoUser
             /\ (pc'[r] = "done" /\ resp'[r].status \in {400, 402, 503}) =>
                   /\ pc[r] \notin TrackingSteps
                   /\ ~track'[r].called
                   /\ wrote'[r] = {}
                   /\ pc[r] # "done" => db' = db
       /\ db' # db =>
             \E r \in Requests :
                 /\ pc[r] \in WritingSteps
                 /\ wrote'[r] # wrote[r]
                 /\ resp'[r].status \in {0, 200}]_vars

\* u1, with a session on the requested board and a stats row, was denied a
\* level-4 hint: no tracking call was made and the rows are as they were.
DeniedHintLeftRowsAlone ==
    \E r \in Requests :
        /\ pc[r] = "done" /\ resp[r].status = 402
        /\ firebaseUser[r] = "u1" /\ query[r].original = "B"
        /\ ~track[r].called /\ wrote[r] = {}
        /\ gameSessions["u1"] = NewSession("B")
        /\ userStats = initialStats
        /\ pointTransactions = << >>

\* The request's trackHintUsage writes user_stats in this step.
StatsWrite(r) == pc[r] \in {"updateStats", "insertStats"} /\ pc'[r] = "insertTransaction"

\* The response leaving with this step carries a points object exactly when
\* trackHintUsage ran for an authenticated caller and returned tracked=true,
\* and then its points value is the hintPoints the tracker computed.
PointsObjectIffTracked(r) ==
    (pc[r] # "done" /\ pc'[r] = "done" /\ resp'[r].status = 200) =>
        /\ resp'[r].points.awarded <=>
              (track'[r].called /\ track'[r].tracked /\ firebaseUser[r] # NoUser)
        /\ track'[r].called => firebaseUser[r] # NoUser /\ track'[r].userId = firebaseUser[r]
        /\ resp'[r].points.awarded =>
              /\ pc[r] = "insertTransaction"
              /\ resp'[r].points.points = local[r].hintPoints
              /\ resp'[r].points.points = track'[r].hintPoints

\* hintPoints does not change between the stats write and the response.
HintPointsKept(r) ==
    (pc[r] \in WritingSteps /\ pc'[r] \in TrackingSteps) =>
        local'[r].hintPoints = local[r].hintPoints

\* C14 as stated: the success response carries a points object if and only
\* if trackHintUsage ran for an authenticated caller and returned tracked, and
\* the points value equals the amount by which the request's stats write
\* raised the user's stored totalPoints.
PointsEqualAmountAddedToTotal ==
    [][\A r \in Requests :
          /\ PointsObjectIffTracked(r)
          /\ HintPointsKept(r)
          /\ StatsWrite(r) =>
                userStats'[firebaseUser[r]].totalPoints
                    - userStats[firebaseUser[r]].totalPoints = local[r].hintPoints]_vars

\* C14: the success response carries a points object if and only if
\* trackHintUsage ran for an authenticated caller and returned tracked; the
\* points value equals the amount the request's stats write added to the
\* totalPoints it had read, which is the amount added to the stored
\* totalPoints whenever the row was not written since the request read it.
PointsEqualAmountAddedToReadTotal ==
    [][\A r \in Requests :
          /\ PointsObjectIffTracked(r)
          /\ HintPointsKept(r)
          /\ StatsWrite(r) =>
                /\ userStats'[firebaseUser[r]].totalPoints
                      = local[r].existingStats.totalPoints + local[r].hintPoints
                /\ userStats[firebaseUser[r]] = local[r].existingStats =>
                      userStats'[firebaseUser[r]].totalPoints
                          - userStats[firebaseUser[r]].totalPoints = local[r].hintPoints]_vars

\* A level-3 hint on u1's board was tracked: the response carries 6 points
\* and u1's totalPoints is 6 above its initial value.
TrackedHintCarriesItsPoints ==
    \E r \in Requests :
        /\ pc[r] = "done" /\ resp[r].status = 200
        /\ track[r].tracked /\ track[r].userId = "u1"
        /\ resp[r].points.awarded /\ resp[r].points.points = 6
        /\ userStats["u1"].totalPoints = initialStats["u1"].totalPoints + 6

\* C15: a /solve request without a credential is never answered 401: the
\* middleware resolves it as anonymous with maxHintLevel 3 and no user id, the
\* handler calls the solver, a hint of level at most 3 is sent with 200 and
\* without points, and a hint of level 4 is denied with requiredEntitlement
\* blue_belt.
AnonymousNeverRejected ==
    \A r \in Requests :
        /\ (pc[r] = "done" /\ resp[r].status = 401) => auth[r].kind = "invalid"
        /\ (pc[r] = "handler" /\ auth[r].kind = "none") =>
              /\ hintAccess[r] = [maxHintLevel |-> 3, userState |-> "anonymous"]
              /\ firebaseUser[r] = NoUser
        /\ (pc[r] = "done" /\ hintAccess[r].userState = "anonymous") =>
              /\ calls[r] >= 1 /\ Len(fetched[r]) = calls[r]
              /\ resp[r].status # 401
              /\ ~track[r].called
              /\ (LastFetched(r).kind = "ok" /\ DecisiveLevel(r) <= 3) =>
                    /\ resp[r].status = 200
                    /\ resp[r].hints = LastFetched(r)
                    /\ resp[r].points = NoPoints
              /\ (LastFetched(r).kind = "ok" /\ DecisiveLevel(r) = 4) =>
                    /\ resp[r].status = 402
                    /\ resp[r].requiredEntitlement = "blue_belt"

\* A request without a credential was answered 200 with a level-3 hint.
AnonymousGotLevelThree ==
    \E r \in Requests :
        /\ pc[r] = "done" /\ resp[r].status = 200
        /\ hintAccess[r].userState = "anonymous" /\ firebaseUser[r] = NoUser
        /\ resp[r].hints.hints /\ resp[r].hints.level = 3

\* C16: a /solve request whose bearer credential fails verification is
\* answered 401 by the middleware: the handler never runs for it, the solver
\* is not called, trackHintUsage is not called, and the step that rejects it
\* leaves GameSession, UserStats and PointTransaction unchanged.
InvalidCredentialRejectedFirst ==
    [][\A r \in Requests :
          /\ (pc[r] = "middleware" /\ auth[r].kind = "invalid" /\ pc'[r] # pc[r]) =>
                /\ pc'[r] = "done"
                /\ resp'[r].status = 401
                /\ db' = db
          /\ auth'[r].kind = "invalid" =>
                /\ pc'[r] \in {"middleware", "done"}
                /\ calls'[r] = 0 /\ fetched'[r] = << >>
                /\ ~track'[r].called /\ wrote'[r] = {}
                /\ hintAccess'[r] = NoHintAccess]_vars

\* A request with an invalid bearer token was answered 401 without a solver call.
InvalidTokenGot401 ==
    \E r \in Requests :
        /\ pc[r] = "done" /\ resp[r].status = 401
        /\ auth[r].kind = "invalid"
        /\ calls[r] = 0 /\ fetched[r] = << >>

\* The rows of game_sessions, each with its user_id.
GameSessionRows ==
    {[userId |-> u, row |-> gameSessions[u]] : u \in {v \in Users : gameSessions[v].exists}}

\* C17: game_sessions holds at most one row per userId in every state, and
\* no step creates or deletes a session row: a row changes only in the
\* session update of a request of the row's own user, and then only in
\* hintUsed and hintsCount; that update finds the caller's row and leaves it
\* with hintUsed set and a hintsCount of at least 1.
SessionRowsOnlyUpdated ==
    [][\A u \in Users :
          /\ Cardinality({s \in GameSessionRows : s.userId = u}) <= 1
          /\ Cardinality({s \in GameSessionRows' : s.userId = u}) <= 1
          /\ gameSessions'[u].exists = gameSessions[u].exists
          /\ gameSessions'[u] # gameSessions[u] =>
                /\ \E r \in Requests :
                      /\ pc[r] = "updateSession" /\ pc'[r] = "selectStats"
                      /\ firebaseUser[r] = u
                /\ gameSessions'[u].hintUsed
                /\ gameSessions'[u] =
                      [gameSessions[u] EXCEPT !.hintUsed = TRUE,
                                              !.hintsCount = gameSessions'[u].hintsCount]
                /\ \A v \in Users \ {u} : gameSessions'[v] = gameSessions[v]
          /\ \A r \in Requests :
                (pc[r] = "updateSession" /\ pc'[r] = "selectStats" /\ firebaseUser[r] = u) =>
                    /\ gameSessions[u].exists
                    /\ gameSessions'[u].hintUsed
                    /\ gameSessions'[u].hintsCount >= 1]_vars

\* u1's hint was tracked on its session row while u2, who has no session,
\* also asked for a hint: u1's row was updated and no row appeared for u2.
OnlyOwnersRowUpdated ==
    /\ \E r \in Requests :
          pc[r] = "done" /\ track[r].userId = "u1" /\ track[r].tracked
    /\ \E r \in Requests :
          pc[r] = "done" /\ track[r].userId = "u2" /\ track[r].called /\ ~track[r].tracked
    /\ gameSessions["u1"].exists /\ gameSessions["u1"].hintsCount = 1
    /\ gameSessions["u2"] = NoSession
    /\ Cardinality(GameSessionRows) = 1

\* C18: the server initializes the database before accepting requests: no
\* request is being handled or has been handled unless initDatabase and then
\* initGamificationTables have both completed.
NoRequestBeforeInitialized ==
    \A r \in Requests : pc[r] # "idle" => server.phase = "ready"

\* The request's step out of the given await of the middleware, not by a throw of the store.
AccessStep(a, at) == ac[a].pc = at /\ ac'[a].pc # at /\ ~ac'[a].storeFailed

\* C19: checkAndRecordAccess with limit L for the endpoint (boards, dailies
\* and challenges 2, solve 10, any other endpoint 2) and c accesses of the
\* user on the endpoint recorded today: for c >= L it returns granted=false,
\* remaining=0 and records nothing; otherwise it records exactly one access
\* and returns granted=true, remaining = L - c - 1.  Run one call after
\* another, the count of a day never passes L: the first L calls are granted
\* and every later call of that day is denied.
CheckAndRecordAccessLimits ==
    [][/\ \A a \in AccessRequests :
             LET ctx == ac[a]
                 u == ctx.userId
                 e == ctx.endpoint
                 L == IF e = "solve" THEN 10 ELSE 2
             IN  /\ AccessStep(a, "getAccessCountToday") =>
                       LET c == accessLogs[u][e][today]
                       IN  /\ accessLogs' = accessLogs
                           /\ ac'[a].accessCount = c
                           /\ c >= L => /\ ac'[a].pc = "done"
                                         /\ ac'[a].granted = "no"
                                         /\ ac'[a].remaining = 0
                                         /\ ~ac'[a].recorded
                           /\ c < L => ac'[a].pc = "recordAccess"
                 /\ AccessStep(a, "recordAccess") =>
                       /\ accessLogs' = [accessLogs EXCEPT ![u][e][today] = @ + 1]
                       /\ ac'[a].recorded
                       /\ ac'[a].granted = "yes"
                       /\ ac'[a].remaining = L - ctx.accessCount - 1
                       /\ ac'[a].remaining >= 0
                 /\ (ctx.pc # "done" /\ ac'[a].storeFailed) =>
                       accessLogs' = accessLogs /\ ac'[a].granted = "-"
       /\ \A u \in Users, e \in Endpoints, d \in Days :
             accessLogs'[u][e][d] <= (IF e = "solve" THEN 10 ELSE 2)]_vars

\* The tenth access of u1 to the solve endpoint today was granted with 0 remaining.
TenthSolveAccessGranted ==
    \E a \in AccessRequests :
        /\ ac[a].pc = "done" /\ ac[a].endpoint = "solve" /\ ac[a].userId = "u1"
        /\ ac[a].granted = "yes" /\ ac[a].recorded
        /\ ac[a].accessCount = 9 /\ ac[a].remaining = 0
        /\ accessLogs["u1"]["solve"][today] = 10

\* The caller is verified, no site admin, and without a subscription the
\* middleware can see: no helper, a failing lookup, or no entitlement.
Unsubscribed(cred) ==
    /\ cred.kind = "valid" /\ ~cred.admin
    /\ ~cred.helper \/ cred.lookupFails \/ ~cred.subscribed

\* C20: the access-control middleware decides in this order.  A missing or
\* malformed Authorization header, or a token that fails verification: 401.
\* A verified site admin passes with no access recorded.  A verified user
\* with an active entitlement passes with no access recorded.  Everybody
\* else gets the daily limit checked and passes exactly when
\* checkAndRecordAccess grants, and is answered 402 exactly when it denies.
\* A failing subscription lookup counts as no entitlement.  access_logs
\* changes only in recordAccess.
AccessControlDecisionOrder ==
    [][/\ \A a \in AccessRequests :
             LET ctx == ac'[a]
                 cred == ctx.cred
             IN  /\ ctx.pc = "getSubscriptionInfo" =>
                       cred.kind = "valid" /\ ~cred.admin /\ cred.helper
                 /\ ctx.pc \in {"getAccessCountToday", "recordAccess"} => Unsubscribed(cred)
                 /\ ctx.pc = "done" =>
                       /\ cred.kind \in {"none", "malformed", "invalid"} =>
                             /\ ctx.status = 401 /\ ~ctx.passed
                             /\ ~ctx.recorded /\ ctx.granted = "-"
                       /\ (cred.kind = "valid" /\ cred.admin) =>
                             /\ ctx.passed /\ ctx.status = 0
                             /\ ~ctx.recorded /\ ctx.granted = "-"
                       /\ (cred.kind = "valid" /\ ~cred.admin /\ cred.helper
                              /\ cred.subscribed /\ ~cred.lookupFails) =>
                             /\ ctx.passed /\ ctx.status = 0
                             /\ ~ctx.recorded /\ ctx.granted = "-"
                       /\ Unsubscribed(cred) =>
                             /\ ctx.passed <=> ctx.granted = "yes"
                             /\ ctx.passed => /\ ctx.recorded /\ ctx.status = 0
                                              /\ ctx.header = ctx.remaining
                             /\ ctx.status = 402 <=> ctx.granted = "no"
                             /\ ~ctx.storeFailed => ctx.granted \in {"yes", "no"}
                             /\ ctx.storeFailed => ~ctx.passed
       /\ accessLogs' # accessLogs =>
             \E a \in AccessRequests :
                 /\ ac[a].pc = "recordAccess" /\ ac'[a].recorded
                 /\ Unsubscribed(ac[a].cred)]_vars

\* The subscription lookup of a user at the daily limit failed: answered 402.
FailedLookupStillLimited ==
    \E a \in AccessRequests :
        /\ ac[a].pc = "done" /\ ac[a].cred.kind = "valid"
        /\ ac[a].cred.lookupFails /\ ~ac[a].cred.admin
        /\ ac[a].granted = "no" /\ ac[a].status = 402 /\ ~ac[a].passed
        /\ ac[a].accessCount = 2

\* The filtered call of the request answered with a level-0 hint and the
\* unfiltered retry has settled.
RetriedAfterLevelZeroHint(r) ==
    /\ query[r].techniques /\ Len(fetched[r]) = 2
    /\ fetched[r][1].kind = "ok" /\ fetched[r][1].hints /\ fetched[r][1].level = 0

\* C24: after a technique-filtered call answered hints.level = 0 and the
\* unfiltered retry was made, only the retried result is used: `result` holds
\* it, the 400 check and the gate read it, trackHintUsage scores its level,
\* and a 200 response carries it; when the retry returns a hint above level 0
\* the level-0 result is not what is sent.
RetriedResultDecides ==
    \A r \in Requests :
        RetriedAfterLevelZeroHint(r) =>
            LET first == fetched[r][1]
                retried == fetched[r][2]
            IN  /\ retried.kind # "throw" => result[r] = retried
                /\ pc[r] \in TrackingSteps =>
                      /\ retried.kind = "ok"
                      /\ GateLevel(retried) <= hintAccess[r].maxHintLevel
                      /\ local[r].techniqueLevel = TechniqueLevel(retried)
                /\ pc[r] = "done" =>
                      /\ retried.kind = "throw" <=> resp[r].status = 503
                      /\ retried.kind \in {"fail", "nodata"} <=> resp[r].status = 400
                      /\ retried.kind = "ok" =>
                            /\ resp[r].status = 402 <=>
                                  GateLevel(retried) > hintAccess[r].maxHintLevel
                            /\ resp[r].status = 402 => resp[r].hintLevel = GateLevel(retried)
                            /\ resp[r].status \in {200, 402}
                            /\ resp[r].status = 200 =>
                                  /\ resp[r].hints = retried
                                  /\ (retried.hints /\ retried.level > 0) => resp[r].hints # first
                                  /\ track[r].tracked =>
                                        /\ track[r].hintPoints = 2 * TechniqueLevel(retried)
                                        /\ resp[r].points.points = 2 * TechniqueLevel(retried)
                                        /\ resp[r].points.techniqueLevel = TechniqueLevel(retried)

\* u1's filtered request on its session board got a level-0 hint, the retry
\* a level-3 hint: the response carries the level-3 hint and 6 points.
RetriedHintTrackedAndSent ==
    \E r \in Requests :
        /\ pc[r] = "done" /\ RetriedAfterLevelZeroHint(r)
        /\ fetched[r][2].kind = "ok" /\ fetched[r][2].hints /\ fetched[r][2].level = 3
        /\ resp[r].status = 200 /\ resp[r].hints.level = 3
        /\ track[r].tracked /\ track[r].userId = "u1"
        /\ resp[r].points.points = 6

\* The entitlements a caller in the given resolved state holds.
HeldEntitlements(userState) ==
    IF userState = "red_belt" THEN {"red_belt"}
    ELSE IF userState = "blue_belt" THEN {"blue_belt"}
    ELSE {}

SessionFrame(row) ==
    [exists |-> row.exists, board |-> row.board, solution |-> row.solution,
     level |-> row.level, puzzleType |-> row.puzzleType, puzzleId |-> row.puzzleId]

\* hintsCount > 0 implies hintUsed, and hintUsed stays true.
HintUsedFollowsCount(u) ==
    /\ gameSessions[u].hintsCount > 0 => gameSessions[u].hintUsed
    /\ gameSessions'[u].hintsCount > 0 => gameSessions'[u].hintUsed
    /\ gameSessions[u].hintUsed => gameSessions'[u].hintUsed

\* C27 as stated: for a session created with hintUsed=false and
\* hintsCount=0, through trackHintUsage calls run one after another or
\* interleaved, hintsCount > 0 implies hintUsed, hintUsed never returns to
\* false, hintsCount never decreases, and board, solution, level, puzzleType
\* and puzzleId never change.
SessionCountNeverDecreases ==
    [][\A u \in Users :
          /\ HintUsedFollowsCount(u)
          /\ SessionFrame(gameSessions'[u]) = SessionFrame(gameSessions[u])
          /\ gameSessions'[u].hintsCount >= gameSessions[u].hintsCount]_vars

\* C27: for a session created with hintUsed=false and hintsCount=0, through
\* trackHintUsage calls run one after another or interleaved, hintsCount > 0
\* implies hintUsed, hintUsed never returns to false, and board, solution,
\* level, puzzleType and puzzleId never change.  Every session update stores
\* the count its request read plus one, so hintsCount is at least 1 after an
\* update, and it grows by one whenever the row was not updated since the
\* request read it.
SessionCountFromReadValue ==
    [][\A u \in Users :
          /\ HintUsedFollowsCount(u)
          /\ SessionFrame(gameSessions'[u]) = SessionFrame(gameSessions[u])
          /\ gameSessions'[u] # gameSessions[u] =>
                \E r \in Requests :
                    /\ pc[r] = "updateSession" /\ firebaseUser[r] = u
                    /\ gameSessions'[u].hintsCount = local[r].session.hintsCount + 1
                    /\ gameSessions'[u].hintsCount >= 1
                    /\ local[r].session.hintsCount = gameSessions[u].hintsCount =>
                          gameSessions'[u].hintsCount = gameSessions[u].hintsCount + 1]_vars

\* A request is about to store a hintsCount below the stored one: it read
\* the count before two other hints of the user were recorded.
StaleCountAboutToBeStored ==
    \E r \in Requests :
        /\ pc[r] = "updateSession" /\ firebaseUser[r] = "u1"
        /\ local[r].session.hintsCount = 0
        /\ gameSessions["u1"].hintsCount = 2
        /\ gameSessions["u1"].hintUsed

\* C28: whenever trackHintUsage returns tracked=false, a store failure
\* part-way included, GameSession, UserStats and PointTransaction are as
\* they were before the call: the call has written none of the three tables,
\* and no step of it on the way to that return changed hintsCount or
\* totalPoints.
UntrackedHintChangedNothing ==
    \A r \in Requests :
        (pc[r] = "done" /\ track[r].called /\ ~track[r].tracked) => wrote[r] = {}

\* C25: however concurrent checkAndRecordAccess calls of one user on one
\* endpoint interleave, the access-log rows recorded for the user, the
\* endpoint and a day (one per granted call) never exceed the endpoint's
\* daily limit, and no call returns a negative remaining.
ConcurrentAccessWithinLimit ==
    /\ \A u \in Users, e \in Endpoints, d \in Days :
          accessLogs[u][e][d] <= getDailyLimit(e)
    /\ \A a \in AccessRequests :
          ac[a].granted # "-" => ac[a].remaining >= 0

\* C30: the access-control middleware answers 401 only for a missing or
\* malformed Authorization header or a token that fails verification; a
\* caller whose token verified is never answered 401, whatever fails in the
\* access-log store inside checkAndRecordAccess.
Only401ForBadCredential ==
    \A a \in AccessRequests :
        (ac[a].pc = "done" /\ ac[a].status = 401) =>
            /\ ac[a].cred.kind \in {"none", "malformed", "invalid"}
            /\ ~ac[a].storeFailed

\* C21: when no daily exists for the requested date, GET /dailies/today and
\* GET /dailies/date/:date answer with a fallback puzzle whose level is
\* between 3 and 5, whatever the levels and boards tables hold.
FallbackLevelThreeToFive ==
    \A c \in ContentRequests :
        (daily[c].pc = "done" /\ daily[c].status = 200 /\ daily[c].data.fallback) =>
            /\ daily[c].date \notin dailies
            /\ daily[c].data.level >= 3
            /\ daily[c].data.level <= 5

\* The PUT /levels/:level request answers in this step.
LevelPutAnswers(c) == levelPut[c].pc # "done" /\ levelPut'[c].pc = "done"
\* The PUT /boards/:uuid request answers in this step.
BoardPutAnswers(c) == boardPut[c].pc # "done" /\ boardPut'[c].pc = "done"

\* C22: a PUT on an existing row of levels or boards updates only the
\* provided fields: after it every field present in the body, a field given
\* as null where the schema accepts null included, holds the provided value
\* and every omitted field holds its previous value; a PUT for a missing key
\* answers 404 and changes no table.
PutUpdatesProvidedFieldsOnly ==
    [][\A c \in ContentRequests :
          /\ LevelPutAnswers(c) =>
                LET k == levelPut[c].level
                    body == levelPut[c].body
                IN  IF levels[k].exists
                    THEN /\ levelPut'[c].status = 200
                         /\ levels'[k].exists
                         /\ levelPut'[c].data = levels'[k]
                         /\ \A f \in LevelFields :
                               levels'[k][f] = IF f \in body.provided THEN body[f]
                                               ELSE levels[k][f]
                         /\ \A l \in LevelIds \ {k} : levels'[l] = levels[l]
                         /\ boards' = boards
                    ELSE /\ levelPut'[c].status = 404
                         /\ contentTables' = contentTables
          /\ BoardPutAnswers(c) =>
                LET k == boardPut[c].uuid
                    body == boardPut[c].body
                IN  IF boards[k].exists
                    THEN /\ boardPut'[c].status = 200
                         /\ boards'[k].exists
                         /\ boardPut'[c].data = boards'[k]
                         /\ \A f \in BoardFields :
                               boards'[k][f] = IF f \in body.provided THEN body[f]
                                               ELSE boards[k][f]
                         /\ \A b \in BoardIds \ {k} : boards'[b] = boards[b]
                         /\ levels' = levels
                    ELSE /\ boardPut'[c].status = 404
                         /\ contentTables' = contentTables]_vars

\* C29: two concurrent PUT requests on the same row that provide disjoint
\* sets of fields both take effect: once both have been answered 200 the
\* row holds, for each field either of them provided, the value it gave.
DisjointPutsBothTakeEffect ==
    \A c, d \in ContentRequests :
        /\ ( /\ c # d
             /\ levelPut[c].pc = "done" /\ levelPut[c].status = 200
             /\ levelPut[d].pc = "done" /\ levelPut[d].status = 200
             /\ levelPut[c].level = levelPut[d].level
             /\ levelPut[c].body.provided \cap levelPut[d].body.provided = {} ) =>
                \A f \in levelPut[c].body.provided :
                    levels[levelPut[c].level][f] = levelPut[c].body[f]
        /\ ( /\ c # d
             /\ boardPut[c].pc = "done" /\ boardPut[c].status = 200
             /\ boardPut[d].pc = "done" /\ boardPut[d].status = 200
             /\ boardPut[c].uuid = boardPut[d].uuid
             /\ boardPut[c].body.provided \cap boardPut[d].body.provided = {} ) =>
                \A f \in boardPut[c].body.provided :
                    boards[boardPut[c].uuid][f] = boardPut[c].body[f]

\* The rows of the table after the step.
TableRowsAfter(table) ==
    IF table = "examples" THEN techniqueExamples' ELSE techniquePractices'

\* The DELETE request on a collection answers in this step.
DeleteAllAnswers(c) == del[c].pc # "done" /\ del'[c].pc = "done"

\* C23: DELETE on the whole collection (/examples, /practices) deletes rows
\* only when the query parameter confirm equals "true": a request with any
\* other confirm is answered 400 and leaves the tables unchanged, a confirmed
\* request is answered 200, leaves its table empty and reports the number of
\* rows it deleted, and the rows of a table change in no other step.
DeleteAllOnlyWhenConfirmed ==
    [][/\ \A c \in ContentRequests :
             DeleteAllAnswers(c) =>
                LET table == del'[c].table
                    confirm == del'[c].confirm
                IN  IF confirm = "true"
                    THEN /\ del[c].pc = "delete"
                         /\ del'[c].status = 200
                         /\ TableRowsAfter(table) = {}
                         /\ del'[c].deleted = Cardinality(TableRows(table))
                         /\ \A other \in DeleteTables \ {table} :
                               TableRowsAfter(other) = TableRows(other)
                    ELSE /\ del'[c].status = 400
                         /\ del'[c].deleted = NoDeleted
                         /\ contentTables' = contentTables
       /\ contentTables' # contentTables =>
             \E c \in ContentRequests :
                 /\ DeleteAllAnswers(c)
                 /\ del'[c].confirm = "true"
       /\ \A c \in ContentRequests :
             del'[c].pc = "delete" => del'[c].confirm = "true"]_vars

\* A confirmed DELETE /examples emptied a table of three rows and reported
\* 3, while a DELETE /practices with ?confirm=TRUE was answered 400 and
\* left its three rows in place.
ThreeExamplesDeletedAndReported ==
    /\ del["c1"].pc = "done"
    /\ del["c1"].table = "examples"
    /\ del["c1"].confirm = "true"
    /\ del["c1"].status = 200
    /\ del["c1"].deleted = Cardinality(RowIds)
    /\ techniqueExamples = {}
    /\ techniquePractices = RowIds
    /\ del["c2"].pc = "done"
    /\ del["c2"].table = "practices"
    /\ del["c2"].confirm = "TRUE"
    /\ del["c2"].status = 400

====
